---- MODULE Spec2Model ----
(***************************************************************************)
(* Go-Reilly: the download / convert / upload pipeline, its job registry,   *)
(* the two counting semaphores that bound it, the metadata cache short-cut  *)
(* and the SSE status stream.                                               *)
(*                                                                          *)
(* One orchestrator goroutine (downloadBookAsync) runs per non-cached       *)
(* request.  Every action below is one step of one goroutine: the return of *)
(* the blocking call the goroutine was in, followed by the goroutine's next *)
(* operation on shared memory (a semaphore, the registry map, the fields of *)
(* a Download, a channel).                                                  *)
(***************************************************************************)
EXTENDS Integers, Sequences, FiniteSets, TLC

(* ---- bounds of the model ---- *)
MaxJobs == 2
MaxStreamJobs == 1
MaxBooks == 1
MaxChapters == 1
MaxSubs == 1
MaxWatchers == 2
MaxLag == 1
MaxCacheBooks == 2
MaxPathJobs == 2
MaxNameLen == 2
MaxContentChapters == 6
MaxTOCChildren == 2
MaxTOCLevels == 3
MaxPolls == 25
MaxPollErrors == 20
RetryStep == 2000
RetryCap == 10000
PollInterval == 1000
MaxFailures == 1

(* ---- program constants ---- *)
DownloadSlots == 3
ConversionSlots == 2
\* Mutant: the subscriber channel is made one element larger.
ClientChanCapPlusOne == 10 + 1

ClientChanCap == 10
MaxConcurrent == 5

\* The burst scenario: one request more than there are fetch slots.
BurstJobs == DownloadSlots + 1

NumJobs == IF MaxJobs > BurstJobs THEN MaxJobs ELSE BurstJobs

Jobs == 1..NumJobs
Books == 1..MaxBooks

Subs == 1..(IF MaxSubs > MaxWatchers THEN MaxSubs ELSE MaxWatchers)

VARIABLES
  RedisClient,          \* handlers.RedisClient # nil
  MinIOClient,          \* handlers.MinIOClient # nil
  redis,                \* the key-value store: book id -> BookCacheInfo
  store,                \* object names present in the bucket
  downloads,            \* keys of the registry map
  BookID,               \* Download.BookID
  Status, Progress, Message, Error, Cached,   \* fields of each Download
  version,              \* per job: writes of its state since a subscriber first registered
  FileSize, MinIOURL,   \* Download.FileSize / EpubSize, Download.MinIOURL / EpubURL
  epubFileSize,         \* per orchestrator: the size read by os.Stat
  uploaded,             \* per orchestrator: epubObjectName, uploadedEpubSize
  convResult,           \* per orchestrator: how the convert step ended
  pc,                   \* position of each request / orchestrator goroutine
  downloadSemaphore,    \* len(downloadSemaphore)
  conversionSemaphore,  \* len(conversionSemaphore)
  fetchSlot, convSlot,  \* per orchestrator: "none" | "held" | "released"
  timer,                \* per job: the cleanup goroutine, "none" | its sleep | "fired"
  chapters,             \* len(c.chapters) of each fetch
  resultsSent,          \* workers' sends on results
  ticksSent,            \* workers' sends on progressChan
  lastErr,              \* DownloadContent's lastErr # nil
  completed,            \* the collector goroutine's counter
  panicked,             \* the process died of a send on a closed channel
  failures,             \* external steps that have failed so far
  sseClients,           \* per job: the registered subscriber channels
  clientChan,           \* per subscriber: the buffered channel's content
  ssePc,                \* per subscriber: position of StreamDownloadStatusHandler
  sseJob,               \* per subscriber: the download it streams
  sseLast,              \* per subscriber: the status in the last event written
  sseSeq,               \* per subscriber: the job version in the last event written
  sseTerminals,         \* per subscriber: terminal events written so far
  sseGone,              \* per subscriber: the client went away (ctx.Done)
  post,                 \* the last POST /api/download: its body, its cache lookup, the answer's status
  bookInfoResp,         \* what upstream does with the book-info request of a book
  infoCode,             \* the status GET /api/book/{id}/info answered for it
  jobError,             \* the error a job for it is failed with
  kv,                   \* the Redis server: key -> stored text
  cachePuts,            \* per book: the record of the last SetBookInfo not deleted since
  cacheGot,             \* the arguments and results of the last GetBookInfo
  bookDirs,             \* the books whose fetch directory, with what was written into it, is on disk
  epubPath,             \* per orchestrator: the path client.Download returned; 0 is ""
  outFiles,             \* the books whose conversion output is in tmpDir
  paths,                \* per job of the naming scenario: title, book id, fetch directory, output file
  dc,                   \* one call of DownloadContent: its workers, channels and main loop
  stats,                \* one call of GetStatsHandler: its position, its counters, its answer
  toc,                  \* one call of parseTOC: the tree it was given, the nav points it returned
  poll                  \* the browser's pollStatus for one download

cfgVars == <<RedisClient, MinIOClient>>
infoVars == <<bookInfoResp, infoCode, jobError>>
cacheVars == <<kv, cachePuts, cacheGot>>
sideVars == <<infoVars, cacheVars, paths, dc, stats, toc, poll>>
localVars == <<bookDirs, epubPath, outFiles>>
artifactVars == <<store, FileSize, MinIOURL, epubFileSize, uploaded, convResult>>
fieldVars == <<Status, Progress, Message, Error, version>>
semVars == <<downloadSemaphore, conversionSemaphore, fetchSlot, convSlot>>
fetchVars == <<chapters, resultsSent, ticksSent, lastErr>>
sseVars == <<sseClients, ssePc, sseJob, sseLast, sseSeq, sseTerminals, sseGone>>
vars == <<RedisClient, MinIOClient, redis, store, FileSize, MinIOURL, epubFileSize,
          uploaded, convResult, downloads, BookID, Status, Progress,
          Message, Error, Cached, pc, downloadSemaphore, conversionSemaphore,
          fetchSlot, convSlot, timer, chapters, resultsSent, ticksSent, lastErr,
          completed, panicked, failures, sseClients, clientChan, ssePc, sseJob,
          sseLast, sseTerminals, sseGone, version, sseSeq, post, bookInfoResp,
          infoCode, jobError, kv, cachePuts, cacheGot, bookDirs, epubPath, outFiles,
          paths, dc, stats, toc, poll>>

\* Everything but the lookup of a book's info, the cache wrapper's data and
\* the file names.
afterSide == <<RedisClient, MinIOClient, redis, store, FileSize, MinIOURL, epubFileSize,
               uploaded, convResult, downloads, BookID, Status, Progress, Message,
               Error, Cached, pc, downloadSemaphore, conversionSemaphore, fetchSlot,
               convSlot, timer, chapters, resultsSent, ticksSent, lastErr, completed,
               panicked, failures, sseClients, clientChan, ssePc, sseJob, sseLast,
               sseTerminals, sseGone, version, sseSeq, post, localVars>>

\* Everything but the lookup of a book's info.
afterInfo == <<afterSide, cacheVars, paths, dc, stats, toc, poll>>

\* Everything but the record of the last POST.
afterPost == <<RedisClient, MinIOClient, redis, store, FileSize, MinIOURL, epubFileSize,
               uploaded, convResult, downloads, BookID, Status, Progress, Message,
               Error, Cached, pc, downloadSemaphore, conversionSemaphore, fetchSlot,
               convSlot, timer, chapters, resultsSent, ticksSent, lastErr, completed,
               panicked, failures, sseClients, clientChan, ssePc, sseJob, sseLast,
               sseTerminals, sseGone, version, sseSeq, sideVars, localVars>>

Terminal == {"completed", "error"}

\* MinIOClient.UploadFile's objectName for a book: bookID/filename; 0 is "".
ObjectName(b) == b

\* The size in bytes of the EPUB written for a book (some positive number).
FileBytes(b) == 40 + b

\* No BookCacheInfo under the key: GetBookInfo answers nil, nil.
NoRecord == [EpubPath |-> 0, EpubSize |-> 0]

\* What UploadFile returns before it was called.
NotUploaded == [name |-> 0, size |-> 0]

\* The bodies of POST /api/download: json.Decode succeeds or not, and the
\* book_id it left in req.BookID; 0 is "" (absent or empty).
Requests == [ok : BOOLEAN, book_id : {0} \cup Books]

\* The bodies that decode and name a book.
ValidRequests == {req \in Requests : req.ok /\ req.book_id # 0}

(* ---- the Redis wrapper's data ---- *)

\* The book ids the cache is exercised with.
CacheBooks == 1..MaxCacheBooks

\* fmt.Sprintf("book:%s", bookID), as the pieces of the key.
Key(b) == <<"book:", b>>

\* redis.Nil: no value under the key.
Nil == [nil |-> TRUE]

\* No record was put for the book, or it was deleted.
NoInfo == [BookID |-> 0]

\* The job has no files yet.
NoPaths == [title |-> <<>>, id |-> <<>>, dir |-> <<>>, out |-> <<>>]

\* GetStatsHandler is not running and has not answered.
NoStats ==
  [pc |-> "idle", seen |-> {}, total |-> 0, active |-> 0, completed |-> 0, failed |-> 0,
   queued |-> 0, downloadUsed |-> 0, conversionUsed |-> 0]

\* parseTOC was not called yet.
NoTOC == [called |-> FALSE]

\* pollStatus was not started yet.
NoPoll ==
  [pc |-> "sse", job |-> "running", errorCount |-> 0, timer |-> 0, retry |-> 0,
   prevRetry |-> 0, polls |-> 0, stoppedBy |-> "none"]

\* DownloadContent was not called yet.
NotCalled ==
  [called |-> FALSE, n |-> 0, worker |-> [w \in 1..MaxConcurrent |-> "none"], taken |-> 0,
   attempts |-> [c \in 1..MaxContentChapters |-> 0], results |-> <<>>, failed |-> 0,
   received |-> 0, lastErr |-> FALSE, ret |-> "none"]

\* Upstream was not asked about the book yet.
NotAsked == [kind |-> "none", status |-> ""]

\* The process is alive: a panic in any goroutine ends it.
Running == ~panicked

\* Mutant: GetStatsHandler counts without the registry lock.
RegistryNeverLocked == FALSE

\* GetStatsHandler holds downloadsLock.RLock, which keeps out the writers of
\* the registry.
RegistryReadLocked == stats.pc = "loop"

Init ==
  /\ RedisClient \in BOOLEAN
  /\ MinIOClient \in BOOLEAN
  /\ redis \in [Books -> {NoRecord} \cup
                          {[EpubPath |-> ObjectName(b), EpubSize |-> FileBytes(b)] : b \in Books}]
  /\ \A b \in Books : redis[b].EpubPath \in {0, ObjectName(b)}
  /\ store \in SUBSET {ObjectName(b) : b \in Books}
  /\ FileSize = [j \in Jobs |-> 0]
  /\ MinIOURL = [j \in Jobs |-> 0]
  /\ epubFileSize = [j \in Jobs |-> 0]
  /\ uploaded = [j \in Jobs |-> NotUploaded]
  /\ convResult = [j \in Jobs |-> "none"]
  /\ downloads = {}
  /\ BookID = [j \in Jobs |-> 0]
  /\ Status = [j \in Jobs |-> "none"]
  /\ Progress = [j \in Jobs |-> 0]
  /\ Message = [j \in Jobs |-> ""]
  /\ Error = [j \in Jobs |-> ""]
  /\ version = [j \in Jobs |-> 0]
  /\ Cached = [j \in Jobs |-> FALSE]
  /\ pc = [j \in Jobs |-> "new"]
  /\ downloadSemaphore = 0
  /\ conversionSemaphore = 0
  /\ fetchSlot = [j \in Jobs |-> "none"]
  /\ convSlot = [j \in Jobs |-> "none"]
  /\ timer = [j \in Jobs |-> "none"]
  /\ chapters = [j \in Jobs |-> 0]
  /\ resultsSent = [j \in Jobs |-> 0]
  /\ ticksSent = [j \in Jobs |-> 0]
  /\ lastErr = [j \in Jobs |-> FALSE]
  /\ completed = [j \in Jobs |-> 0]
  /\ panicked = FALSE
  /\ failures = 0
  /\ sseClients = [j \in Jobs |-> {}]
  /\ clientChan = [s \in Subs |-> <<>>]
  /\ ssePc = [s \in Subs |-> "idle"]
  /\ sseJob = [s \in Subs |-> 0]
  /\ sseLast = [s \in Subs |-> "none"]
  /\ sseSeq = [s \in Subs |-> 0]
  /\ sseTerminals = [s \in Subs |-> 0]
  /\ sseGone = [s \in Subs |-> FALSE]
  /\ post = [body |-> [ok |-> FALSE, book_id |-> 0], code |-> "none", cache |-> "none"]
  /\ bookInfoResp = NotAsked
  /\ infoCode = "none"
  /\ jobError = "none"
  /\ kv = [k \in {Key(b) : b \in CacheBooks} |-> Nil]
  /\ cachePuts = [b \in CacheBooks |-> NoInfo]
  /\ cacheGot = [bookID |-> 0, res |-> "none", info |-> NoInfo, fault |-> FALSE]
  /\ bookDirs = {}
  /\ epubPath = [j \in Jobs |-> 0]
  /\ outFiles = {}
  /\ paths = [k \in 1..MaxPathJobs |-> NoPaths]
  /\ dc = NotCalled
  /\ stats = NoStats
  /\ toc = NoTOC
  /\ poll = NoPoll

(***************************************************************************)
(* The Download object                                                      *)
(***************************************************************************)

\* The position of the next write in the order of the job's writes, counted
\* from the first registration of a subscriber.
NextVersion(j) ==
  IF sseClients[j] # {} \/ version[j] > 0 THEN version[j] + 1 ELSE 0

\* The update record handed to every registered subscriber channel by a
\* non-blocking send: a full channel drops it.
Broadcast(j, status, progress) ==
  clientChan' = [s \in Subs |->
     IF s \in sseClients[j] /\ Len(clientChan[s]) < ClientChanCap
     THEN Append(clientChan[s], [status |-> status, progress |-> progress,
                                 version |-> NextVersion(j)])
     ELSE clientChan[s]]

\* Download.UpdateStatus: the three fields are overwritten unconditionally.
UpdateStatus(j, status, message, progress) ==
  /\ Status' = [Status EXCEPT ![j] = status]
  /\ Message' = [Message EXCEPT ![j] = message]
  /\ Progress' = [Progress EXCEPT ![j] = progress]
  /\ version' = [version EXCEPT ![j] = NextVersion(j)]
  /\ UNCHANGED Error
  /\ Broadcast(j, status, progress)

\* The sleeps of the cleanup goroutines: five minutes after a success, two
\* after a failure.
Armed == {"5m", "2m"}

\* Mutant: the completion path starts no cleanup goroutine.
NoCompletionCleanup == "none"

\* time.Sleep(5 * time.Minute) of the goroutine started after completion.
CompletionRetention == "5m"

\* time.Sleep(5 * time.Minute) of the goroutine started on a cache hit.
CachedRetention == "5m"

\* The callback handed to SetError: the job is removed after its retention.
ScheduleCleanup(j) ==
  timer' = [timer EXCEPT ![j] = "2m"]

\* Download.SetError: status, error and message; progress is left alone.
SetError(j, err) ==
  /\ Status' = [Status EXCEPT ![j] = "error"]
  /\ Error' = [Error EXCEPT ![j] = err]
  /\ Message' = [Message EXCEPT ![j] = err]
  /\ version' = [version EXCEPT ![j] = NextVersion(j)]
  /\ UNCHANGED Progress
  /\ Broadcast(j, "error", Progress[j])
  /\ ScheduleCleanup(j)

\* progressCallback of downloadBookAsync, reached through Client.updateProgress.
progressCallback(j, progress, message) ==
  UpdateStatus(j, "downloading", message, progress)

(***************************************************************************)
(* Outcomes of external steps                                               *)
(***************************************************************************)

\* An external step (upstream request, file write, converter and copy,
\* upload, presign) fails; a run sees at most MaxFailures of them.
Failure ==
  /\ failures < MaxFailures
  /\ failures' = failures + 1

NoFailure == UNCHANGED failures

(***************************************************************************)
(* The two semaphores                                                       *)
(***************************************************************************)

\* Mutant: the fetch semaphore admits one sender too many.
FetchSlotFreeOffByOne == downloadSemaphore <= DownloadSlots

\* A send on the buffered channel proceeds only below its capacity.
FetchSlotFree == downloadSemaphore < DownloadSlots

\* Mutant: the conversion semaphore admits one sender too many.
ConvSlotFreeOffByOne == conversionSemaphore <= ConversionSlots

ConvSlotFree == conversionSemaphore < ConversionSlots

(***************************************************************************)
(* DownloadBookHandler                                                      *)
(***************************************************************************)

\* Mutant: the cache-hit path also launches the orchestrator.
CacheHitLaunches == "acquire"

\* What the cache-hit path leaves running for the new job: nothing.
CacheHitPc == "cached"

\* What the handler's cache lookup came to: it is skipped unless both
\* clients are configured; a read that failed and a read that found nothing
\* are one case to the handler; a record without a path mints no URL.
CacheLookup(b, getOK, presignOK) ==
  IF ~(RedisClient /\ MinIOClient) THEN "skipped"
  ELSE IF ~getOK \/ redis[b] = NoRecord THEN "norecord"
  ELSE IF redis[b].EpubPath = 0 \/ ~presignOK THEN "nourl"
  ELSE "hit"

\* Mutant: a record is served although no presigned URL was minted.
CacheHitWithoutURL(b, getOK, presignOK) ==
  CacheLookup(b, getOK, presignOK) \in {"hit", "nourl"}

\* The cache lookup answers a usable record: both clients configured, the
\* read succeeded and found a record, and the presigned URL was minted.
CacheHit(b, getOK, presignOK) == CacheLookup(b, getOK, presignOK) = "hit"

CachedResponse(j, b) ==
  /\ downloads' = downloads \cup {j}
  /\ BookID' = [BookID EXCEPT ![j] = b]
  /\ Status' = [Status EXCEPT ![j] = "completed"]
  /\ Progress' = [Progress EXCEPT ![j] = 100]
  /\ Message' = [Message EXCEPT ![j] = "Book retrieved from cache"]
  /\ Cached' = [Cached EXCEPT ![j] = TRUE]
  /\ FileSize' = [FileSize EXCEPT ![j] = redis[b].EpubSize]
  /\ MinIOURL' = [MinIOURL EXCEPT ![j] = redis[b].EpubPath]
  /\ timer' = [timer EXCEPT ![j] = CachedRetention]
  /\ pc' = [pc EXCEPT ![j] = CacheHitPc]
  /\ UNCHANGED <<Error, version, clientChan>>

StartDownload(j, b) ==
  /\ downloads' = downloads \cup {j}
  /\ BookID' = [BookID EXCEPT ![j] = b]
  /\ Status' = [Status EXCEPT ![j] = "starting"]
  /\ Progress' = [Progress EXCEPT ![j] = 0]
  /\ Message' = [Message EXCEPT ![j] = "Initializing download..."]
  /\ pc' = [pc EXCEPT ![j] = "acquire"]
  /\ UNCHANGED <<Error, version, Cached, FileSize, MinIOURL, timer, clientChan>>

\* Mutant: only an undecodable body is refused.
OnlyUndecodable(req) == ~req.ok

\* The two early returns: the body does not decode, or bookID == "".
InvalidRequest(req) == ~req.ok \/ req.book_id = 0

\* http.Error(w, ..., http.StatusBadRequest) and return.
BadRequest(req) ==
  /\ post' = [body |-> req, code |-> "400", cache |-> "none"]
  /\ UNCHANGED <<redis, downloads, BookID, fieldVars, Cached, FileSize, MinIOURL, timer,
                 pc, clientChan>>

\* Download ids are fresh: request j is the j-th accepted request.
DownloadBookHandler(j, requests) ==
  /\ Running
  /\ pc[j] = "new"
  /\ IF j = 1 THEN TRUE ELSE pc[j - 1] # "new"
  /\ \E req \in requests, getOK \in BOOLEAN, presignOK \in BOOLEAN :
        IF InvalidRequest(req)
        THEN BadRequest(req)
        ELSE /\ ~RegistryReadLocked
             /\ post' = [body |-> req,
                          code |-> IF CacheHit(req.book_id, getOK, presignOK)
                                   THEN "200" ELSE "202",
                          cache |-> CacheLookup(req.book_id, getOK, presignOK)]
             /\ UNCHANGED redis
             /\ IF CacheHit(req.book_id, getOK, presignOK)
                THEN CachedResponse(j, req.book_id)
                ELSE StartDownload(j, req.book_id)
  /\ UNCHANGED <<cfgVars, sideVars, localVars, store, epubFileSize, uploaded, convResult, semVars,
                 fetchVars, completed, panicked, failures, sseVars>>

\* The cleanup goroutine after its sleep: cleanupDownload, or the cache-hit
\* path's inline copy of it.
cleanupDownload(j) ==
  /\ Running
  /\ ~RegistryReadLocked
  /\ timer[j] \in Armed
  /\ timer' = [timer EXCEPT ![j] = "fired"]
  /\ downloads' = downloads \ {j}
  /\ UNCHANGED <<cfgVars, post, sideVars, localVars, redis, artifactVars, BookID, fieldVars, Cached, pc, semVars,
                 fetchVars, completed, panicked, failures, clientChan, sseVars>>

(***************************************************************************)
(* downloadBookAsync                                                        *)
(***************************************************************************)

\* What an orchestrator step leaves alone besides the Download's fields,
\* the job's position and its cleanup timer.
orchCore == <<cfgVars, post, sideVars, redis, downloads, BookID, Cached, semVars, fetchVars,
              completed, panicked, sseVars>>

orchFrame == <<orchCore, artifactVars, localVars>>

\* The step ends in an UpdateStatus and the goroutine moves on to `next`.
Advance(j, message, progress, next) ==
  /\ UpdateStatus(j, "downloading", message, progress)
  /\ pc' = [pc EXCEPT ![j] = next]
  /\ UNCHANGED <<timer, failures>>

\* Mutant: the error is recorded but the goroutine does not return.
FailWithoutReturn(j, err) ==
  /\ SetError(j, err)
  /\ UNCHANGED pc

\* The step ends in SetError and the goroutine returns.
Fail(j, err) ==
  /\ SetError(j, err)
  /\ pc' = [pc EXCEPT ![j] = "return"]

\* The send on downloadSemaphore, immediate or after blocking.
AcquireFetchSlot(j) ==
  /\ Running
  /\ pc[j] = "acquire"
  /\ FetchSlotFree
  /\ downloadSemaphore' = downloadSemaphore + 1
  /\ fetchSlot' = [fetchSlot EXCEPT ![j] = "held"]
  /\ pc' = [pc EXCEPT ![j] = "lookup"]
  /\ UNCHANGED <<cfgVars, post, sideVars, localVars, redis, artifactVars, downloads, BookID, fieldVars, Cached,
                 conversionSemaphore, convSlot, timer, fetchVars, completed,
                 panicked, failures, clientChan, sseVars>>

\* The registry lookup, then the first status update.
LookupDownload(j) ==
  /\ Running
  /\ pc[j] = "lookup"
  /\ IF j \notin downloads
     THEN /\ pc' = [pc EXCEPT ![j] = "return"]
          /\ UNCHANGED <<fieldVars, timer, failures, clientChan>>
     ELSE Advance(j, "Connecting to O'Reilly...", 10, "newclient")
  /\ UNCHANGED orchFrame

\* oreilly.NewClient returned (cookies, login check).
NewClientDone(j) ==
  /\ Running
  /\ pc[j] = "newclient"
  /\ \/ Advance(j, "Downloading book content...", 20, "getbookinfo")
     \/ Failure /\ Fail(j, "Authentication failed. Please update your cookies.json file.")
  /\ UNCHANGED orchFrame

\* Client.Download enters GetBookInfo, which reports progress first.
GetBookInfoStart(j) ==
  /\ Running
  /\ pc[j] = "getbookinfo"
  /\ pc' = [pc EXCEPT ![j] = "bookinfo"]
  /\ progressCallback(j, 15, "Retrieving book info...")
  /\ UNCHANGED <<timer, failures, orchFrame>>

\* GetBookInfo returned; on success GetChapters starts and reports progress.
GetBookInfoDone(j) ==
  /\ Running
  /\ pc[j] = "bookinfo"
  /\ \/ /\ pc' = [pc EXCEPT ![j] = "getchapters"]
        /\ progressCallback(j, 25, "Retrieving book chapters...")
        /\ UNCHANGED <<timer, failures>>
     \/ Failure /\ Fail(j, "Book not found. Please check the Book ID and try again.")
  /\ UNCHANGED orchFrame

\* The directory of a book's fetch: tmpBooksDir/{clean title} ({book id}).
BookDir(b) == b

\* GetChapters and createDirectories returned; downloadCover reports progress
\* when the book has a cover URL, otherwise DownloadContent starts at once.
GetChaptersDone(j, n) ==
  /\ Running
  /\ pc[j] = "getchapters"
  /\ \/ /\ pc' = [pc EXCEPT ![j] = "cover"]
        /\ progressCallback(j, 28, "Downloading book cover...")
        /\ chapters' = [chapters EXCEPT ![j] = n]
        /\ bookDirs' = bookDirs \cup {BookDir(BookID[j])}
        /\ UNCHANGED <<timer, failures>>
     \/ /\ pc' = [pc EXCEPT ![j] = "content"]
        /\ chapters' = [chapters EXCEPT ![j] = n]
        /\ bookDirs' = bookDirs \cup {BookDir(BookID[j])}
        /\ UNCHANGED <<fieldVars, timer, failures, clientChan>>
     \/ /\ Failure
        /\ Fail(j, "failed to retrieve chapters")
        /\ UNCHANGED <<chapters, bookDirs>>
  /\ UNCHANGED <<cfgVars, post, sideVars, epubPath, outFiles, redis, artifactVars, downloads, BookID, Cached,
                 semVars, resultsSent, ticksSent, lastErr, completed, panicked, sseVars>>

\* The cover request returned; a failure is only logged.
CoverDone(j) ==
  /\ Running
  /\ pc[j] = "cover"
  /\ pc' = [pc EXCEPT ![j] = "content"]
  /\ UNCHANGED <<fieldVars, timer, failures, clientChan, orchFrame>>

(***************************************************************************)
(* Client.DownloadContent: workers, the collector goroutine, the main loop  *)
(***************************************************************************)

contentFrame == <<cfgVars, post, sideVars, localVars, redis, artifactVars, downloads, BookID, Cached, pc, semVars,
                  timer, chapters, sseVars>>

Min(a, b) == IF a < b THEN a ELSE b

Num(n) == IF n = 0 THEN "0" ELSE <<"1", "2", "3", "4", "5", "6", "7", "8", "9">>[n]

\* progress := 30 + int(float64(completed)/float64(totalChapters)*20)
ChapterProgress(done, total) == 30 + (done * 20) \div total

ChapterMessage(done, total) ==
  "Downloaded " \o Num(done) \o "/" \o Num(total) \o " chapters"

\* A worker finished downloadChapter and sent its outcome on results.
WorkerResult(j) ==
  /\ Running
  /\ pc[j] = "content"
  /\ resultsSent[j] < chapters[j]
  /\ resultsSent[j] - ticksSent[j] < Min(MaxConcurrent, chapters[j])
  /\ resultsSent' = [resultsSent EXCEPT ![j] = @ + 1]
  /\ \/ NoFailure /\ UNCHANGED lastErr
     \/ Failure /\ lastErr' = [lastErr EXCEPT ![j] = TRUE]
  /\ UNCHANGED <<fieldVars, ticksSent, completed, panicked, clientChan, contentFrame>>

\* The same worker's next statement: progressChan <- 1, on the open channel.
WorkerTick(j) ==
  /\ Running
  /\ pc[j] = "content"
  /\ ticksSent[j] < resultsSent[j]
  /\ ticksSent' = [ticksSent EXCEPT ![j] = @ + 1]
  /\ UNCHANGED <<fieldVars, resultsSent, lastErr, completed, panicked, failures,
                 clientChan, contentFrame>>

\* The same statement after the main loop closed progressChan: the send
\* panics and the process exits.
WorkerTickClosed(j) ==
  /\ Running
  /\ pc[j] # "content"
  /\ ticksSent[j] < resultsSent[j]
  /\ panicked' = TRUE
  /\ UNCHANGED <<fieldVars, resultsSent, ticksSent, lastErr, completed, failures,
                 clientChan, contentFrame>>

\* One iteration of the collector goroutine's `for range progressChan`; the
\* goroutine is not awaited by DownloadContent.
Collector(j) ==
  /\ Running
  /\ completed[j] < ticksSent[j]
  /\ completed' = [completed EXCEPT ![j] = @ + 1]
  /\ progressCallback(j, ChapterProgress(completed[j] + 1, chapters[j]),
                      ChapterMessage(completed[j] + 1, chapters[j]))
  /\ UNCHANGED <<resultsSent, ticksSent, lastErr, panicked, failures, contentFrame>>

\* The main loop received every result and closed progressChan; on success
\* CreateEPUB starts and reports progress.
ContentDone(j) ==
  /\ Running
  /\ pc[j] = "content"
  /\ resultsSent[j] = chapters[j]
  /\ IF lastErr[j]
     THEN NoFailure /\ Fail(j, "some chapters failed to download")
     ELSE Advance(j, "Creating EPUB structure...", 50, "epub50")
  /\ UNCHANGED orchFrame

\* CreateEPUB: after each file is written the next progress report; a file
\* cannot be written into a directory that was removed.
EpubSteps == 
  [epub50 |-> [progress |-> 60, message |-> "Generating content.opf...", next |-> "epub60"],
   epub60 |-> [progress |-> 70, message |-> "Generating toc.ncx...", next |-> "epub70"],
   epub70 |-> [progress |-> 80, message |-> "Packaging EPUB...", next |-> "epubzip"],
   epubzip |-> [progress |-> 100, message |-> "EPUB created successfully!", next |-> "fetched"]]

CreateEPUBStep(j) ==
  /\ Running
  /\ pc[j] \in DOMAIN EpubSteps
  /\ IF BookDir(BookID[j]) \in bookDirs
     THEN \/ Advance(j, EpubSteps[pc[j]].message, EpubSteps[pc[j]].progress,
                     EpubSteps[pc[j]].next)
          \/ Failure /\ Fail(j, "failed to create EPUB")
     ELSE NoFailure /\ Fail(j, "failed to create EPUB")
  /\ UNCHANGED orchFrame

(***************************************************************************)
(* downloadBookAsync: convert, upload, completion, return                   *)
(***************************************************************************)

\* Mutant: the fetch slot is given back before the convert step.
StartConvertReleasesFetch(j) ==
  /\ Running
  /\ pc[j] = "fetched"
  /\ epubPath' = [epubPath EXCEPT ![j] = BookDir(BookID[j])]
  /\ Advance(j, "Converting with Calibre...", 80, "convwait")
  /\ downloadSemaphore' = downloadSemaphore - 1
  /\ fetchSlot' = [fetchSlot EXCEPT ![j] = "released"]
  /\ UNCHANGED <<cfgVars, post, sideVars, redis, downloads, BookID, Cached,
                 conversionSemaphore, convSlot, fetchVars, completed, panicked,
                 sseVars, artifactVars, bookDirs, outFiles>>

\* Client.Download returned the EPUB path; the removal of its directory is
\* deferred.
StartConvert(j) ==
  /\ Running
  /\ pc[j] = "fetched"
  /\ epubPath' = [epubPath EXCEPT ![j] = BookDir(BookID[j])]
  /\ Advance(j, "Converting with Calibre...", 80, "convwait")
  /\ UNCHANGED <<orchCore, artifactVars, bookDirs, outFiles>>

\* Mutant: the convert step takes its slot from the fetch pool.
AcquireConvSlotFromFetchPool(j) ==
  /\ Running
  /\ pc[j] = "convwait"
  /\ FetchSlotFree
  /\ downloadSemaphore' = downloadSemaphore + 1
  /\ convSlot' = [convSlot EXCEPT ![j] = "held"]
  /\ pc' = [pc EXCEPT ![j] = "converting"]
  /\ UNCHANGED <<cfgVars, post, sideVars, localVars, redis, artifactVars, downloads, BookID, fieldVars, Cached,
                 conversionSemaphore, fetchSlot, timer, fetchVars, completed,
                 panicked, failures, clientChan, sseVars>>

\* conversionSemaphore <- struct{}{}
AcquireConvSlot(j) ==
  /\ Running
  /\ pc[j] = "convwait"
  /\ ConvSlotFree
  /\ conversionSemaphore' = conversionSemaphore + 1
  /\ convSlot' = [convSlot EXCEPT ![j] = "held"]
  /\ pc' = [pc EXCEPT ![j] = "converting"]
  /\ UNCHANGED <<cfgVars, post, sideVars, localVars, redis, artifactVars, downloads, BookID, fieldVars, Cached,
                 downloadSemaphore, fetchSlot, timer, fetchVars, completed,
                 panicked, failures, clientChan, sseVars>>

\* Mutant: the copy-failure path returns without its receive.
NoReleaseOnCopyFailure == conversionSemaphore

\* len(conversionSemaphore) after the receive on the copy-failure path.
ReleaseOnCopyFailure == conversionSemaphore - 1

\* Mutant: a failed conversion fails the step whatever the copy does.
OnlyConverted(result) == result = "converted"

\* epubErr == nil, or the fallback copy succeeded.
ConvertSurvives(result) == result \in {"converted", "copied"}

\* convertWithCalibre returned, and copyFile if the conversion failed; the
\* slot is given back on both ways out.  Both fail on an input that was
\* removed before they read it.
ConvertDone(j) ==
  /\ Running
  /\ pc[j] = "converting"
  /\ conversionSemaphore > 0
  /\ \E result \in {"converted", "copied", "copyfailed"} :
       /\ convResult' = [convResult EXCEPT ![j] = result]
       /\ IF result = "converted" \/ epubPath[j] \notin bookDirs
          THEN NoFailure ELSE Failure
       /\ IF ConvertSurvives(result)
          THEN /\ conversionSemaphore' = conversionSemaphore - 1
               /\ outFiles' = outFiles \cup {BookID[j]}
               /\ pc' = [pc EXCEPT ![j] = "converted"]
          ELSE /\ conversionSemaphore' = ReleaseOnCopyFailure
               /\ UNCHANGED outFiles
               /\ pc' = [pc EXCEPT ![j] = "copyfailed"]
  /\ convSlot' = [convSlot EXCEPT ![j] = "released"]
  /\ UNCHANGED <<cfgVars, post, sideVars, bookDirs, epubPath, redis, store, FileSize, MinIOURL, epubFileSize, uploaded,
                 downloads, BookID, fieldVars, Cached, downloadSemaphore, fetchSlot,
                 timer, fetchVars, completed, panicked, clientChan, sseVars>>

CopyFailed(j) ==
  /\ Running
  /\ pc[j] = "copyfailed"
  /\ NoFailure
  /\ Fail(j, "Failed to save EPUB file")
  /\ UNCHANGED orchFrame

\* Mutant: the storage-absent branch falls through to completion.
StorageAbsentCompletes(j) ==
  /\ pc' = [pc EXCEPT ![j] = "complete"]
  /\ UNCHANGED <<fieldVars, timer, clientChan>>

\* MinIOClient == nil: the job fails and the orchestrator returns.
StorageAbsent(j) ==
  Fail(j, "Storage service unavailable - please contact administrator")

\* os.Stat of the output, whose error leaves epubFileSize 0; then the
\* upload starts, or storage is absent and the output is removed.
StartUpload(j) ==
  /\ Running
  /\ pc[j] = "converted"
  /\ \/ /\ BookID[j] \in outFiles
        /\ epubFileSize' = [epubFileSize EXCEPT ![j] = FileBytes(BookID[j])]
        /\ NoFailure
     \/ /\ epubFileSize' = [epubFileSize EXCEPT ![j] = 0]
        /\ IF BookID[j] \in outFiles THEN Failure ELSE NoFailure
  /\ IF MinIOClient
     THEN /\ UpdateStatus(j, "downloading", "Uploading to storage...", 90)
          /\ pc' = [pc EXCEPT ![j] = "upload"]
          /\ UNCHANGED <<timer, outFiles>>
     ELSE /\ StorageAbsent(j)
          /\ outFiles' = outFiles \ {BookID[j]}
  /\ UNCHANGED <<orchCore, bookDirs, epubPath, store, FileSize, MinIOURL, uploaded, convResult>>

\* MinIOClient.UploadFile returned; it cannot read an output that was removed.
UploadDone(j) ==
  /\ Running
  /\ pc[j] = "upload"
  /\ \/ /\ BookID[j] \in outFiles
        /\ pc' = [pc EXCEPT ![j] = "presign"]
        /\ store' = store \cup {ObjectName(BookID[j])}
        /\ uploaded' = [uploaded EXCEPT ![j] =
                          [name |-> ObjectName(BookID[j]), size |-> FileBytes(BookID[j])]]
        /\ UNCHANGED <<fieldVars, timer, failures, clientChan>>
     \/ /\ IF BookID[j] \in outFiles THEN Failure ELSE NoFailure
        /\ Fail(j, "Failed to upload to storage")
        /\ UNCHANGED <<store, uploaded>>
  /\ UNCHANGED <<orchCore, localVars, FileSize, MinIOURL, epubFileSize, convResult>>

\* Mutant: the record carries the size read by the local os.Stat.
CacheInfoLocalSize(j) ==
  [EpubPath |-> uploaded[j].name, EpubSize |-> epubFileSize[j]]

\* cache.BookCacheInfo written after the upload: its path and size are the
\* values UploadFile returned.
CacheInfo(j) ==
  [EpubPath |-> uploaded[j].name, EpubSize |-> uploaded[j].size]

\* Mutant: a failed cache write makes the orchestrator return.
AfterCacheWriteStrict(setOK) == IF setOK THEN "complete" ELSE "return"

\* Where the orchestrator goes after SetBookInfo, whose error is only logged.
AfterCacheWrite(setOK) == "complete"

\* MinIOClient.GetPresignedURL returned; on success the local file is removed
\* and the cache record is written, best effort.
PresignDone(j) ==
  /\ Running
  /\ pc[j] = "presign"
  /\ \/ /\ \E setOK \in BOOLEAN :
             /\ redis' = IF RedisClient /\ uploaded[j].name # 0 /\ setOK
                         THEN [redis EXCEPT ![BookID[j]] = CacheInfo(j)]
                         ELSE redis
             /\ pc' = [pc EXCEPT ![j] = AfterCacheWrite(setOK)]
        /\ outFiles' = outFiles \ {BookID[j]}
        /\ UNCHANGED <<fieldVars, timer, failures, clientChan>>
     \/ /\ Failure
        /\ Fail(j, "Failed to generate download URL")
        /\ UNCHANGED <<redis, outFiles>>
  /\ UNCHANGED <<cfgVars, post, sideVars, bookDirs, epubPath, artifactVars, downloads, BookID, Cached, semVars, fetchVars,
                 completed, panicked, sseVars>>

\* The completion under downloadsLock, which no reader of the fields holds:
\* first download.Status, Progress and Message are assigned, without a
\* broadcast.
Complete(j) ==
  /\ Running
  /\ ~RegistryReadLocked
  /\ pc[j] = "complete"
  /\ Status' = [Status EXCEPT ![j] = "completed"]
  /\ Progress' = [Progress EXCEPT ![j] = 100]
  /\ Message' = [Message EXCEPT ![j] = "Download complete!"]
  /\ version' = [version EXCEPT ![j] = NextVersion(j)]
  /\ pc' = [pc EXCEPT ![j] = "completing"]
  /\ UNCHANGED <<Error, timer, failures, clientChan, orchFrame>>

\* The rest of the same critical section: FileSize, EpubSize, MinIOURL and
\* EpubURL are assigned and the lock is given back.
CompleteFields(j) ==
  /\ Running
  /\ pc[j] = "completing"
  /\ FileSize' = [FileSize EXCEPT ![j] = epubFileSize[j]]
  /\ MinIOURL' = [MinIOURL EXCEPT ![j] = uploaded[j].name]
  /\ pc' = [pc EXCEPT ![j] = "broadcast"]
  /\ UNCHANGED <<fieldVars, timer, failures, clientChan, orchCore, localVars, store, epubFileSize,
                 uploaded, convResult>>

\* UpdateStatus("completed", ...) broadcasts; the cleanup goroutine starts.
BroadcastCompletion(j) ==
  /\ Running
  /\ pc[j] = "broadcast"
  /\ UpdateStatus(j, "completed", "Download complete!", 100)
  /\ timer' = [timer EXCEPT ![j] = CompletionRetention]
  /\ pc' = [pc EXCEPT ![j] = "return"]
  /\ UNCHANGED <<failures, orchFrame>>

\* The deferred functions, last registered first: the removal of the fetch
\* directory, then the receive from downloadSemaphore.
ReleaseFetchSlot(j) ==
  /\ Running
  /\ pc[j] = "return"
  /\ downloadSemaphore > 0
  /\ bookDirs' = (IF epubPath[j] # 0 THEN bookDirs \ {epubPath[j]} ELSE bookDirs)
  /\ downloadSemaphore' = downloadSemaphore - 1
  /\ fetchSlot' = [fetchSlot EXCEPT ![j] = "released"]
  /\ pc' = [pc EXCEPT ![j] = "done"]
  /\ UNCHANGED <<cfgVars, post, sideVars, epubPath, outFiles, redis, artifactVars, downloads, BookID,
                 fieldVars, Cached, conversionSemaphore, convSlot, timer, fetchVars,
                 completed, panicked, failures, clientChan, sseVars>>

(***************************************************************************)
(* StreamDownloadStatusHandler                                              *)
(***************************************************************************)

\* download, exists := downloads[downloadID]
exists(j) == j \in downloads

\* GetStatusHandler's answer for an id.
GetStatusHandler(j) ==
  IF ~exists(j) THEN "notfound" ELSE Status[j]

\* GetFileHandler's answer for an id: the only file it serves is a redirect
\* to the stored object.
GetFileHandler(j) ==
  IF ~exists(j) THEN "notfound"
  ELSE IF Status[j] # "completed" THEN "notcompleted"
  ELSE IF MinIOURL[j] # 0 THEN "redirect"
  ELSE "nofile"

\* fmt.Fprintf(w, "data: %s\n\n", data): one more event on the stream.
WriteEvent(s, status, ver) ==
  /\ sseLast' = [sseLast EXCEPT ![s] = status]
  /\ sseSeq' = [sseSeq EXCEPT ![s] = ver]
  /\ sseTerminals' = [sseTerminals EXCEPT ![s] =
                        IF status \in Terminal THEN @ + 1 ELSE @]

streamFrame == <<cfgVars, post, sideVars, localVars, redis, artifactVars, downloads, BookID, fieldVars, Cached, pc,
                 semVars, timer, fetchVars, completed, panicked, failures>>

\* The registry lookup; an unknown id is answered with one error event.
StreamLookup(s, j) ==
  /\ Running
  /\ ssePc[s] = "idle"
  /\ sseJob' = [sseJob EXCEPT ![s] = j]
  /\ IF exists(j)
     THEN /\ ssePc' = [ssePc EXCEPT ![s] = "add"]
          /\ UNCHANGED <<sseLast, sseSeq, sseTerminals>>
     ELSE /\ ssePc' = [ssePc EXCEPT ![s] = "closed"]
          /\ WriteEvent(s, "notfound", sseSeq[s])
  /\ UNCHANGED <<sseClients, clientChan, sseGone, streamFrame>>

\* download.AddSSEClient(client): the new channel joins the job's subscribers.
AddSSEClient(s) ==
  /\ Running
  /\ ssePc[s] = "add"
  /\ sseClients' = [sseClients EXCEPT ![sseJob[s]] = @ \cup {s}]
  /\ ssePc' = [ssePc EXCEPT ![s] = "snapshot"]
  /\ UNCHANGED <<clientChan, sseJob, sseLast, sseSeq, sseTerminals, sseGone, streamFrame>>

\* download.GetStatus(), written to the stream as the initial event.
SendInitialState(s) ==
  /\ Running
  /\ ssePc[s] = "snapshot"
  /\ WriteEvent(s, Status[sseJob[s]], version[sseJob[s]])
  /\ ssePc' = [ssePc EXCEPT ![s] = "loop"]
  /\ UNCHANGED <<sseClients, clientChan, sseJob, sseGone, streamFrame>>

\* case update := <-client: the update is written; a terminal one ends the loop.
StreamUpdate(s) ==
  /\ Running
  /\ ssePc[s] = "loop"
  /\ clientChan[s] # <<>>
  /\ clientChan' = [clientChan EXCEPT ![s] = Tail(@)]
  /\ WriteEvent(s, Head(clientChan[s]).status, Head(clientChan[s]).version)
  /\ ssePc' = [ssePc EXCEPT ![s] =
                 IF Head(clientChan[s]).status \in Terminal THEN "exit" ELSE "loop"]
  /\ UNCHANGED <<sseClients, sseJob, sseGone, streamFrame>>

\* case <-ctx.Done(): the client went away.
StreamDisconnect(s) ==
  /\ Running
  /\ ssePc[s] = "loop"
  /\ sseGone' = [sseGone EXCEPT ![s] = TRUE]
  /\ ssePc' = [ssePc EXCEPT ![s] = "exit"]
  /\ UNCHANGED <<sseClients, clientChan, sseJob, sseLast, sseSeq, sseTerminals,
                 streamFrame>>

\* Mutant: the deregistration empties the job's subscriber list.
RemoveEverySSEClient(s) ==
  /\ Running
  /\ ssePc[s] = "exit"
  /\ sseClients' = [sseClients EXCEPT ![sseJob[s]] = {}]
  /\ clientChan' = [clientChan EXCEPT ![s] = <<>>]
  /\ ssePc' = [ssePc EXCEPT ![s] = "closed"]
  /\ UNCHANGED <<sseJob, sseLast, sseSeq, sseTerminals, sseGone, streamFrame>>

\* The deferred download.RemoveSSEClient(client): deregistered and closed.
RemoveSSEClient(s) ==
  /\ Running
  /\ ssePc[s] = "exit"
  /\ sseClients' = [sseClients EXCEPT ![sseJob[s]] = @ \ {s}]
  /\ clientChan' = [clientChan EXCEPT ![s] = <<>>]
  /\ ssePc' = [ssePc EXCEPT ![s] = "closed"]
  /\ UNCHANGED <<sseJob, sseLast, sseSeq, sseTerminals, sseGone, streamFrame>>

StreamDownloadStatusHandler(s, ids) ==
  \/ \E j \in ids : StreamLookup(s, j)
  \/ AddSSEClient(s)
  \/ SendInitialState(s)
  \/ StreamUpdate(s)
  \/ StreamDisconnect(s)
  \/ RemoveSSEClient(s)

(***************************************************************************)
(* Specifications                                                           *)
(***************************************************************************)

downloadBookAsync(j, chapterCounts) ==
  \/ AcquireFetchSlot(j)
  \/ LookupDownload(j)
  \/ NewClientDone(j)
  \/ GetBookInfoStart(j)
  \/ GetBookInfoDone(j)
  \/ \E n \in chapterCounts : GetChaptersDone(j, n)
  \/ CoverDone(j)
  \/ ContentDone(j)
  \/ CreateEPUBStep(j)
  \/ StartConvert(j)
  \/ AcquireConvSlot(j)
  \/ ConvertDone(j)
  \/ CopyFailed(j)
  \/ StartUpload(j)
  \/ UploadDone(j)
  \/ PresignDone(j)
  \/ Complete(j)
  \/ CompleteFields(j)
  \/ BroadcastCompletion(j)
  \/ ReleaseFetchSlot(j)

DownloadContent(j) ==
  \/ WorkerResult(j)
  \/ WorkerTick(j)
  \/ WorkerTickClosed(j)
  \/ Collector(j)

\* Up to MaxJobs requests for books of up to MaxChapters chapters.
Next ==
  \E j \in 1..MaxJobs :
       \/ DownloadBookHandler(j, ValidRequests)
       \/ downloadBookAsync(j, 0..MaxChapters)
       \/ DownloadContent(j)
       \/ cleanupDownload(j)

Spec == Init /\ [][Next]_vars

\* The burst: BurstJobs requests arrive at a fully configured server whose
\* cache is empty; their books have no chapters and no retention timer
\* fires during the run.
BurstInit ==
  /\ Init
  /\ RedisClient
  /\ MinIOClient
  /\ \A b \in Books : redis[b] = NoRecord
  /\ store = {}

\* The external calls of a burst fail only where another job of the burst
\* removed the file they work on.
BurstNext ==
  \E j \in 1..BurstJobs :
       \/ DownloadBookHandler(j, ValidRequests)
       \/ failures' = failures /\ downloadBookAsync(j, {0})

Burst == BurstInit /\ [][BurstNext]_vars

\* The stream: up to MaxStreamJobs requests and up to MaxSubs subscribers,
\* each opening one stream for one of the ids.
StreamNext ==
  \/ \E j \in 1..MaxStreamJobs :
          \/ DownloadBookHandler(j, ValidRequests)
          \/ downloadBookAsync(j, 0..MaxChapters)
          \/ DownloadContent(j)
          \/ cleanupDownload(j)
  \/ \E s \in 1..MaxSubs : StreamDownloadStatusHandler(s, 1..MaxStreamJobs)

\* The stream is watched on a fully configured server whose bucket holds
\* the objects of its cache records.
StreamInit ==
  /\ Init
  /\ RedisClient
  /\ MinIOClient
  /\ store = {redis[b].EpubPath : b \in Books} \ {0}

Stream == StreamInit /\ [][StreamNext]_vars

\* Every handler of a stream has registered and sent its snapshot, and has
\* at most MaxLag updates left to write.
WatchersKeepUp ==
  \A s \in Subs :
    /\ ssePc[s] \notin {"add", "snapshot"}
    /\ Len(clientChan[s]) <= MaxLag

\* The watchers: one request for a book without chapters arrives at a fully
\* configured server whose cache is empty; up to MaxWatchers subscribers
\* open a stream for it, and write their events faster than the external
\* calls of the pipeline return; no retention timer fires during the run.
WatchNext ==
  \/ DownloadBookHandler(1, ValidRequests)
  \/ WatchersKeepUp /\ downloadBookAsync(1, {0})
  \/ \E s \in 1..MaxWatchers : StreamDownloadStatusHandler(s, {1})

Watch == BurstInit /\ [][WatchNext]_vars

\* The intake: up to MaxJobs accepted requests among any number of refused
\* ones, for books without chapters.
IntakeNext ==
  \E j \in 1..MaxJobs :
       \/ DownloadBookHandler(j, Requests)
       \/ downloadBookAsync(j, {0})

Intake == Init /\ [][IntakeNext]_vars

(***************************************************************************)
(* Upstream failures and how they are reported                              *)
(***************************************************************************)

\* HTTP statuses upstream may answer the book-info request with.
Statuses == {"200", "201", "204", "301", "302", "400", "401", "403", "404", "408",
             "410", "429", "451", "500", "501", "502", "503", "504", "507", "511"}

\* What can happen to a lookup of a book: the login check is refused or
\* finds an expired account, the request fails in transport, upstream
\* answers a status, or it answers 200 with a body that does not parse or
\* has no title.
UpstreamOutcomes ==
  [kind : {"status"}, status : Statuses]
    \cup [kind : {"login", "expired", "unreachable", "timeout", "parse", "notitle"},
          status : {""}]

\* Upstream says the book is missing.
Missing(resp) == resp.kind = "status" /\ resp.status = "404"

\* The error of oreilly.NewClient, as the pieces of its text; <<>> is nil.
NewClientError(resp) ==
  CASE resp.kind = "login" ->
         <<"authentication failed", ", please refresh ", "cookies.json">>
    [] resp.kind = "expired" -> <<"account subscription expired">>
    [] OTHER -> <<>>

\* The error of Client.GetBookInfo, as the pieces of its text; <<>> is nil.
GetBookInfoError(resp) ==
  CASE resp.kind = "unreachable" ->
         <<"failed to retrieve book info: ", "connection refused">>
    [] resp.kind = "timeout" ->
         <<"failed to retrieve book info: ", "context deadline exceeded (Client.",
           "Timeout", " exceeded while awaiting headers)">>
    [] resp.kind = "status" /\ resp.status # "200" ->
         <<"book not found", " or ", "API error", " (", "status: " \o resp.status, ")">>
    [] resp.kind = "parse" -> <<"failed to parse book info: ", "invalid character">>
    [] resp.kind = "notitle" -> <<"invalid book data">>
    [] OTHER -> <<>>

\* contains / strings.Contains, on the pieces of a text.
contains(msg, substr) == \E i \in 1..Len(msg) : msg[i] = substr

RECURSIVE Text(_)
\* err.Error(): the pieces joined.
Text(msg) == IF msg = <<>> THEN "" ELSE Head(msg) \o Text(Tail(msg))

BookNotFound == "Book not found. Please check the Book ID and try again."

formatError(msg) ==
  IF contains(msg, "Book not found") \/ contains(msg, "API error")
  THEN BookNotFound
  ELSE IF contains(msg, "Authentication failed") \/ contains(msg, "cookies.json")
  THEN "Authentication failed. Please update your cookies.json file."
  ELSE IF contains(msg, "timeout") \/ contains(msg, "Timeout")
  THEN "Request timed out. Please try again."
  ELSE Text(msg)

\* Upstream's behaviour for the book is fixed.
AskUpstream ==
  /\ bookInfoResp = NotAsked
  /\ bookInfoResp' \in UpstreamOutcomes
  /\ UNCHANGED <<infoCode, jobError, afterInfo>>

\* GET /api/book/{id}/info: a client, then the book info.
GetBookInfoHandler ==
  /\ bookInfoResp # NotAsked
  /\ infoCode = "none"
  /\ infoCode' =
       IF NewClientError(bookInfoResp) # <<>> THEN "500"
       ELSE IF GetBookInfoError(bookInfoResp) = <<>> THEN "200"
       ELSE IF contains(GetBookInfoError(bookInfoResp), "book not found")
                 \/ contains(GetBookInfoError(bookInfoResp), "status: 404")
            THEN "404"
            ELSE "500"
  /\ UNCHANGED <<bookInfoResp, jobError, afterInfo>>

\* downloadBookAsync up to the return of GetBookInfo inside client.Download:
\* the first error is formatted and set as the job's error.
JobLookup ==
  /\ bookInfoResp # NotAsked
  /\ jobError = "none"
  /\ jobError' =
       IF NewClientError(bookInfoResp) # <<>>
       THEN formatError(NewClientError(bookInfoResp))
       ELSE formatError(GetBookInfoError(bookInfoResp))
  /\ UNCHANGED <<bookInfoResp, infoCode, afterInfo>>

InfoNext == AskUpstream \/ GetBookInfoHandler \/ JobLookup

Info == BurstInit /\ [][InfoNext]_vars

(***************************************************************************)
(* cache.RedisClient: SetBookInfo, GetBookInfo, DeleteBookInfo              *)
(***************************************************************************)

RECURSIVE Digits(_)
\* The decimal text of a number, one digit per piece.
Digits(n) == IF n < 10 THEN <<Num(n)>> ELSE Digits(n \div 10) \o <<Num(n % 10)>>

RECURSIVE Number(_)
\* The number a decimal text stands for.
Number(text) ==
  IF text = <<>> THEN 0
  ELSE 10 * Number(SubSeq(text, 1, Len(text) - 1)) + (CHOOSE d \in 0..9 : Num(d) = text[Len(text)])

\* encoding/json's escapes for the characters of a string.
EscapeChar(c) ==
  CASE c = "<" -> "\\u003c"
    [] c = "\"" -> "\\\""
    [] c = "\\" -> "\\\\"
    [] OTHER -> c

UnescapeChar(e) ==
  CASE e = "\\u003c" -> "<"
    [] e = "\\\"" -> "\""
    [] e = "\\\\" -> "\\"
    [] OTHER -> e

\* A Go string as a JSON string: quoted, each character escaped.
EncodeString(s) == <<"\"">> \o [i \in 1..Len(s) |-> EscapeChar(s[i])] \o <<"\"">>

DecodeString(text) ==
  [i \in 1..(Len(text) - 2) |-> UnescapeChar(text[i + 1])]

\* Mutant: the time is written with whole seconds only.
EncodeTimeSeconds(t) == <<"\"">> \o Digits(t.sec) \o <<"Z", "\"">>

\* time.Time.MarshalJSON: the instant with its nanoseconds; the monotonic
\* clock reading is not written.
EncodeTime(t) ==
  <<"\"">> \o Digits(t.sec)
     \o (IF t.nsec = 0 THEN <<>> ELSE <<".">> \o Digits(t.nsec))
     \o <<"Z", "\"">>

\* time.Time.UnmarshalJSON: the instant, without a monotonic reading.
DecodeTime(text) ==
  LET inner == SubSeq(text, 2, Len(text) - 2)
      dot == IF \E i \in 1..Len(inner) : inner[i] = "."
             THEN CHOOSE i \in 1..Len(inner) : inner[i] = "."
             ELSE Len(inner) + 1
  IN [sec |-> Number(SubSeq(inner, 1, dot - 1)),
      nsec |-> Number(SubSeq(inner, dot + 1, Len(inner))),
      mono |-> 0]

\* The records the wrapper is exercised with: titles with characters that
\* are escaped, a size of several digits without an ISBN and a zero size
\* with one, times with and without nanoseconds and monotonic reading.
Infos ==
  {[BookID |-> b, BookTitle |-> title, MinIOPath |-> Digits(b) \o <<"/", "a">>,
    FileSize |-> rest.size, UploadedAt |-> at, ISBN |-> rest.isbn] :
     b \in CacheBooks,
     title \in {<<"a">>, <<"<", "\"", "\\">>},
     at \in {[sec |-> 17, nsec |-> 0, mono |-> 5],
             [sec |-> 17, nsec |-> 120, mono |-> 5],
             [sec |-> 170, nsec |-> 120, mono |-> 0]},
     rest \in {[size |-> 1205, isbn |-> <<>>], [size |-> 0, isbn |-> <<"9", "7">>]}}

\* json.Marshal(info): the object's members and their texts.
Marshal(info) ==
  [f \in {"book_id", "book_title", "minio_path", "file_size", "uploaded_at"}
           \cup (IF info.ISBN # <<>> THEN {"isbn"} ELSE {}) |->
     CASE f = "book_id" -> EncodeString(Digits(info.BookID))
       [] f = "book_title" -> EncodeString(info.BookTitle)
       [] f = "minio_path" -> EncodeString(info.MinIOPath)
       [] f = "file_size" -> Digits(info.FileSize)
       [] f = "uploaded_at" -> EncodeTime(info.UploadedAt)
       [] OTHER -> EncodeString(info.ISBN)]

\* json.Unmarshal(data, &info): a member that is absent leaves the zero value.
Unmarshal(data) ==
  [BookID |-> Number(DecodeString(data["book_id"])),
   BookTitle |-> DecodeString(data["book_title"]),
   MinIOPath |-> DecodeString(data["minio_path"]),
   FileSize |-> Number(data["file_size"]),
   UploadedAt |-> DecodeTime(data["uploaded_at"]),
   ISBN |-> IF "isbn" \in DOMAIN data THEN DecodeString(data["isbn"]) ELSE <<>>]

\* SetBookInfo: the record's JSON is SET under its key, without expiry; a
\* Redis error is returned with nothing written.
SetBookInfo(info, ok) ==
  /\ IF ok
     THEN /\ kv' = [kv EXCEPT ![Key(info.BookID)] = Marshal(info)]
          /\ cachePuts' = [cachePuts EXCEPT ![info.BookID] = info]
     ELSE UNCHANGED <<kv, cachePuts>>
  /\ UNCHANGED <<cacheGot, infoVars, paths, dc, stats, toc, poll, afterSide>>

\* GetBookInfo: redis.Nil is a miss (nil, nil), another error is returned,
\* a value is unmarshalled.
GetBookInfo(b, ok) ==
  /\ cacheGot' =
       IF ~ok THEN [bookID |-> b, res |-> "error", info |-> NoInfo, fault |-> TRUE]
       ELSE IF kv[Key(b)] = Nil
       THEN [bookID |-> b, res |-> "miss", info |-> NoInfo, fault |-> FALSE]
       ELSE [bookID |-> b, res |-> "hit", info |-> Unmarshal(kv[Key(b)]), fault |-> FALSE]
  /\ UNCHANGED <<kv, cachePuts, infoVars, paths, dc, stats, toc, poll, afterSide>>

\* DeleteBookInfo: DEL of the key.
DeleteBookInfo(b, ok) ==
  /\ IF ok
     THEN /\ kv' = [kv EXCEPT ![Key(b)] = Nil]
          /\ cachePuts' = [cachePuts EXCEPT ![b] = NoInfo]
     ELSE UNCHANGED <<kv, cachePuts>>
  /\ UNCHANGED <<cacheGot, infoVars, paths, dc, stats, toc, poll, afterSide>>

CacheNext ==
  \E ok \in BOOLEAN :
     \/ \E info \in Infos : SetBookInfo(info, ok)
     \/ \E b \in CacheBooks : GetBookInfo(b, ok)
     \/ \E b \in CacheBooks : DeleteBookInfo(b, ok)

Cache == BurstInit /\ [][CacheNext]_vars

(***************************************************************************)
(* The names of a job's files on disk                                       *)
(***************************************************************************)

Strings(chars, n) == UNION {[1..m -> chars] : m \in 0..n}

\* Titles are made of a letter, the underscore, and a character both
\* cleanFilename functions remove.
Titles == Strings({"a", "_", "("}, MaxNameLen)

\* Book ids are made of a letter and the underscore, and are not empty.
BookIDs == Strings({"a", "_"}, MaxNameLen) \ {<<>>}

RECURSIVE Keep(_, _)
\* The characters of a text that are in a set, in their order.
Keep(text, chars) ==
  IF text = <<>> THEN <<>>
  ELSE (IF Head(text) \in chars THEN <<Head(text)>> ELSE <<>>) \o Keep(Tail(text), chars)

\* result[:100]
Truncate(text) == IF Len(text) > 100 THEN SubSeq(text, 1, 100) ELSE text

RECURSIVE TrimSpace(_)
TrimSpace(text) ==
  IF text # <<>> /\ Head(text) = " " THEN TrimSpace(Tail(text))
  ELSE IF text # <<>> /\ text[Len(text)] = " "
  THEN TrimSpace(SubSeq(text, 1, Len(text) - 1))
  ELSE text

\* handlers' cleanFilename: letters, digits, space, '-' and '_' are kept.
cleanFilename(name) == Truncate(Keep(name, {"a", "_", " ", "-"}))

\* The client's cleanFilename: [^\w\s\-] is removed, then the cut, then the trim.
clientCleanFilename(name) == TrimSpace(Truncate(Keep(name, {"a", "_", " ", "-"})))

\* fmt.Sprintf("%s (%s)", cleanTitle, c.bookID) under tmpBooksDir.
BookPath(title, id) ==
  <<"/tmp/goreilly/books/">> \o clientCleanFilename(title) \o <<" ", "(">> \o id \o <<")">>

\* fmt.Sprintf("%s_%s.epub", safeFilename, bookID) under tmpDir.
OutputEpubFile(title, id) ==
  <<"/tmp/goreilly/">> \o cleanFilename(title) \o <<"_">> \o id \o <<".epub">>

\* Client.createDirectories of the k-th job, for a book and its title.
createDirectories(k) ==
  /\ paths[k] = NoPaths
  /\ \E title \in Titles, id \in BookIDs :
       paths' = [paths EXCEPT ![k] =
                   [title |-> title, id |-> id, dir |-> BookPath(title, id), out |-> <<>>]]
  /\ UNCHANGED <<infoVars, cacheVars, dc, stats, toc, poll, afterSide>>

\* The k-th orchestrator names its conversion output.
outputEpubFile(k) ==
  /\ paths[k] # NoPaths
  /\ paths[k].out = <<>>
  /\ paths' = [paths EXCEPT ![k].out = OutputEpubFile(paths[k].title, paths[k].id)]
  /\ UNCHANGED <<infoVars, cacheVars, dc, stats, toc, poll, afterSide>>

PathsNext == \E k \in 1..MaxPathJobs : createDirectories(k) \/ outputEpubFile(k)

Paths == BurstInit /\ [][PathsNext]_vars

(***************************************************************************)
(* Client.DownloadContent, worker by worker                                 *)
(***************************************************************************)

\* The worker goroutines of a call for n chapters.
Workers(n) == 1..Min(MaxConcurrent, n)

\* Mutant: the main loop waits for one result less.
AllButOneReceived == dc.received >= dc.n - 1

\* for i := 0; i < totalChapters; i++ has run to its end.
AllReceived == dc.received = dc.n

\* No send on a closed channel has ended the process.
NoWorkerPanicked == \A w \in 1..MaxConcurrent : dc.worker[w] # "panic"

\* DownloadContent is called for a book of n chapters: the channels are
\* made, the workers and the goroutine that fills jobs are started.
ContentCall(n) ==
  /\ dc = NotCalled
  /\ dc' = [NotCalled EXCEPT !.called = TRUE, !.n = n,
                             !.worker = [w \in 1..MaxConcurrent |->
                                           IF w \in Workers(n) THEN "recv" ELSE "none"]]
  /\ UNCHANGED <<infoVars, cacheVars, paths, stats, toc, poll, afterSide>>

\* for job := range jobs: a worker takes the next chapter, or leaves the
\* loop when jobs is closed and drained.
WorkerTakes(w) ==
  /\ NoWorkerPanicked
  /\ dc.worker[w] = "recv"
  /\ IF dc.taken < dc.n
     THEN dc' = [dc EXCEPT !.taken = @ + 1, !.worker[w] = "download",
                           !.attempts[dc.taken + 1] = @ + 1]
     ELSE dc' = [dc EXCEPT !.worker[w] = "exit"]
  /\ UNCHANGED <<infoVars, cacheVars, paths, stats, toc, poll, afterSide>>

\* downloadChapter returned and the worker sent its outcome on results.
WorkerSendsResult(w) ==
  /\ NoWorkerPanicked
  /\ dc.worker[w] = "download"
  /\ \E err \in BOOLEAN :
       /\ err => dc.failed < MaxFailures
       /\ dc' = [dc EXCEPT !.worker[w] = "tick",
                           !.results = Append(@, err),
                           !.failed = IF err THEN @ + 1 ELSE @]
  /\ UNCHANGED <<infoVars, cacheVars, paths, stats, toc, poll, afterSide>>

\* progressChan <- 1, which panics once the channel is closed.
WorkerSendsTick(w) ==
  /\ NoWorkerPanicked
  /\ dc.worker[w] = "tick"
  /\ dc' = [dc EXCEPT !.worker[w] = IF dc.ret = "none" THEN "recv" ELSE "panic"]
  /\ UNCHANGED <<infoVars, cacheVars, paths, stats, toc, poll, afterSide>>

\* err := <-results in the main loop.
MainReceives ==
  /\ NoWorkerPanicked
  /\ dc.called
  /\ dc.ret = "none"
  /\ ~AllReceived
  /\ dc.results # <<>>
  /\ dc' = [dc EXCEPT !.results = Tail(@), !.received = @ + 1,
                      !.lastErr = @ \/ Head(dc.results)]
  /\ UNCHANGED <<infoVars, cacheVars, paths, stats, toc, poll, afterSide>>

\* close(progressChan) and the return of lastErr, wrapped, or nil.
ContentReturns ==
  /\ NoWorkerPanicked
  /\ dc.called
  /\ dc.ret = "none"
  /\ AllReceived
  /\ dc' = [dc EXCEPT !.ret = IF dc.lastErr THEN "error" ELSE "nil"]
  /\ UNCHANGED <<infoVars, cacheVars, paths, stats, toc, poll, afterSide>>

ContentNext ==
  \/ \E n \in 0..MaxContentChapters : ContentCall(n)
  \/ \E w \in 1..MaxConcurrent : WorkerTakes(w) \/ WorkerSendsResult(w) \/ WorkerSendsTick(w)
  \/ MainReceives
  \/ ContentReturns

\* One call of DownloadContent for a book of up to MaxContentChapters
\* chapters, of which up to MaxFailures fail.
Content == BurstInit /\ [][ContentNext]_vars

(***************************************************************************)
(* GetStatsHandler                                                          *)
(***************************************************************************)

\* downloadsLock.RLock(); totalDownloads := len(downloads).  The lock is not
\* granted while the completion holds the write lock.
GetStatsLock ==
  /\ Running
  /\ stats.pc \in {"idle", "done"}
  /\ \A j \in Jobs : pc[j] # "completing"
  /\ stats' = [NoStats EXCEPT !.pc = "loop", !.total = Cardinality(downloads)]
  /\ UNCHANGED <<infoVars, cacheVars, paths, dc, toc, poll, afterSide>>

\* What the unlocked read of download.Status can give: the field, or, while
\* a goroutine that writes the job's fields is alive, any value.
StatusRead(j) ==
  IF pc[j] \in {"new", "cached", "done"} /\ completed[j] = ticksSent[j]
  THEN {Status[j]}
  ELSE {"starting", "downloading", "completed", "error"}

\* One iteration of `for _, download := range downloads` and its switch.
GetStatsCount(j) ==
  /\ Running
  /\ stats.pc = "loop"
  /\ j \in downloads \ stats.seen
  /\ \E s \in StatusRead(j) :
       stats' = [stats EXCEPT !.seen = @ \cup {j},
                              !.active = IF s = "downloading" THEN @ + 1 ELSE @,
                              !.completed = IF s = "completed" THEN @ + 1 ELSE @,
                              !.failed = IF s = "error" THEN @ + 1 ELSE @,
                              !.queued = IF s \notin {"downloading", "completed", "error"}
                                         THEN @ + 1 ELSE @]
  /\ UNCHANGED <<infoVars, cacheVars, paths, dc, toc, poll, afterSide>>

\* The range is over; downloadsLock.RUnlock().
GetStatsUnlock ==
  /\ Running
  /\ stats.pc = "loop"
  /\ downloads \subseteq stats.seen
  /\ stats' = [stats EXCEPT !.pc = "slots"]
  /\ UNCHANGED <<infoVars, cacheVars, paths, dc, toc, poll, afterSide>>

\* len(downloadSemaphore), len(conversionSemaphore), and the answer.
GetStatsAnswer ==
  /\ Running
  /\ stats.pc = "slots"
  /\ stats' = [stats EXCEPT !.pc = "done", !.downloadUsed = downloadSemaphore,
                            !.conversionUsed = conversionSemaphore]
  /\ UNCHANGED <<infoVars, cacheVars, paths, dc, toc, poll, afterSide>>

StatsNext ==
  \/ \E j \in 1..MaxJobs :
          \/ DownloadBookHandler(j, ValidRequests)
          \/ downloadBookAsync(j, {0})
          \/ cleanupDownload(j)
          \/ GetStatsCount(j)
  \/ GetStatsLock
  \/ GetStatsUnlock
  \/ GetStatsAnswer

\* Statistics are asked for, again and again, while up to MaxJobs requests
\* for books without chapters are served by a fully configured server.
Stats == BurstInit /\ [][StatsNext]_vars

(***************************************************************************)
(* Client.parseTOC                                                          *)
(***************************************************************************)

RECURSIVE TOCLists(_)
\* The table-of-contents lists nested up to `levels` deep: an item carries
\* its depth field, 0 when the API left it out, and its children.
TOCLists(levels) ==
  IF levels = 0 THEN {<<>>}
  ELSE UNION {[1..n -> [Depth : {0, 2}, Children : TOCLists(levels - 1)]] :
                n \in 0..MaxTOCChildren}

RECURSIVE parseTOC(_, _)
\* The nav points in the order they are written, each by its playOrder, and
\* maxDepth.
parseTOC(items, playOrder) ==
  IF items = <<>> THEN [nav |-> <<>>, maxDepth |-> 0]
  ELSE LET item == Head(items)
           depth == IF item.Depth = 0 THEN 1 ELSE item.Depth
           child == IF Len(item.Children) > 0
                    THEN parseTOC(item.Children, playOrder + 1)
                    ELSE [nav |-> <<>>, maxDepth |-> 0]
           rest == parseTOC(Tail(items), playOrder + Len(item.Children) + 1)
           deepest == IF child.maxDepth > depth THEN child.maxDepth ELSE depth
       IN [nav |-> <<playOrder>> \o child.nav \o rest.nav,
           maxDepth |-> IF rest.maxDepth > deepest THEN rest.maxDepth ELSE deepest]

\* generateTOCNCX calls parseTOC(toc, 1) for the book's table of contents.
generateTOCNCX ==
  /\ toc = NoTOC
  /\ \E items \in TOCLists(MaxTOCLevels) :
       toc' = [called |-> TRUE, items |-> items,
               nav |-> parseTOC(items, 1).nav, maxDepth |-> parseTOC(items, 1).maxDepth]
  /\ UNCHANGED <<infoVars, cacheVars, paths, dc, stats, poll, afterSide>>

TOC == BurstInit /\ [][generateTOCNCX]_vars

(***************************************************************************)
(* The browser: pollStatus, the fallback of a failed event stream           *)
(***************************************************************************)

\* What one fetch of /api/status/<id> can give, by what became of the job:
\* a status that is neither completed nor error ("other"), and "failed" for
\* a response that is not ok (404 once the job is removed) or a fetch that
\* throws, which the network allows at any time. A failed job can show
\* status downloading again after its collector's late update.
StatusFetch(job) ==
  {"failed"} \cup
    CASE job = "running" -> {"other"}
      [] job = "completed" -> {"completed"}
      [] job = "error" -> {"error", "other"}
      [] OTHER -> {}

\* The delay before the retry that follows the errorCount-th failed poll.
retryDelayUncapped(errorCount) == RetryStep * errorCount

retryDelay(errorCount) == Min(RetryStep * errorCount, RetryCap)

\* The job ends, is removed when its retention is over, or the process dies.
JobMoves ==
  /\ \E next \in {"completed", "error", "removed", "down"} :
       /\ \/ poll.job = "running" /\ next \in {"completed", "error", "down"}
          \/ poll.job \in Terminal /\ next \in {"removed", "down"}
       /\ poll' = [poll EXCEPT !.job = next]
  /\ UNCHANGED <<infoVars, cacheVars, paths, dc, stats, toc, afterSide>>

\* eventSource.onerror closes the stream and calls pollStatus.
SSEFallback ==
  /\ poll.pc = "sse"
  /\ poll' = [poll EXCEPT !.pc = "fetching", !.polls = 1]
  /\ UNCHANGED <<infoVars, cacheVars, paths, dc, stats, toc, afterSide>>

\* The timer set by the last poll runs pollStatus again.
TimerFires ==
  /\ poll.pc = "timer"
  /\ poll' = [poll EXCEPT !.pc = "fetching", !.timer = 0,
                          !.polls = Min(poll.polls + 1, MaxPolls)]
  /\ UNCHANGED <<infoVars, cacheVars, paths, dc, stats, toc, afterSide>>

\* pollStatus after its fetch: handleCompletion on completed, the error
\* branch on error, a new poll in one second on any other status, and the
\* catch block on a failed poll.
pollStatus ==
  /\ poll.pc = "fetching"
  /\ \E data \in StatusFetch(poll.job) :
       CASE data = "completed" ->
              poll' = [poll EXCEPT !.pc = "stopped", !.stoppedBy = "completed"]
         [] data = "error" ->
              poll' = [poll EXCEPT !.pc = "stopped", !.stoppedBy = "error"]
         [] data = "other" ->
              poll' = [poll EXCEPT !.pc = "timer", !.timer = PollInterval]
         [] OTHER ->
              IF poll.errorCount + 1 > MaxPollErrors
              THEN poll' = [poll EXCEPT !.pc = "stopped", !.stoppedBy = "failures",
                                        !.errorCount = poll.errorCount + 1]
              ELSE poll' = [poll EXCEPT !.pc = "timer",
                                        !.errorCount = poll.errorCount + 1,
                                        !.timer = retryDelay(poll.errorCount + 1),
                                        !.retry = retryDelay(poll.errorCount + 1),
                                        !.prevRetry = poll.retry]
  /\ UNCHANGED <<infoVars, cacheVars, paths, dc, stats, toc, afterSide>>

PollNext == JobMoves \/ SSEFallback \/ TimerFires \/ pollStatus

\* The browser runs its timers and its fetches answer; the job ends and its
\* retention timer fires.
FairPoll ==
  /\ BurstInit
  /\ [][PollNext]_vars
  /\ WF_vars(JobMoves)
  /\ WF_vars(TimerFires)
  /\ WF_vars(pollStatus)

(***************************************************************************)
(* Properties                                                               *)
(***************************************************************************)

\* The orchestrator of j is between its fetch-slot acquisition and release.
InFetch(j) == pc[j] \notin {"new", "cached", "acquire", "done"}

\* The orchestrator of j is inside the convert step.
InConvert(j) == pc[j] = "converting"

FetchHolders == {j \in Jobs : InFetch(j)}

ConvertHolders == {j \in Jobs : InConvert(j)}

\* C1: at most DownloadSlots orchestrators hold a fetch slot and at most
\* ConversionSlots are inside the convert step; an orchestrator that reaches
\* the convert step while ConversionSlots conversions run cannot enter it.
C1_SlotCaps ==
  /\ Cardinality(FetchHolders) <= DownloadSlots
  /\ Cardinality(ConvertHolders) <= ConversionSlots
  /\ \A j \in Jobs :
       (pc[j] = "convwait" /\ Cardinality(ConvertHolders) = ConversionSlots)
          => ~ENABLED AcquireConvSlot(j)
  /\ \A j \in Jobs :
       (pc[j] = "acquire" /\ Cardinality(FetchHolders) = DownloadSlots)
          => ~ENABLED AcquireFetchSlot(j)

C1_Witness ==
  /\ Cardinality(FetchHolders) = DownloadSlots
  /\ Cardinality(ConvertHolders) = ConversionSlots
  /\ \E j \in Jobs : pc[j] = "convwait"
  /\ \E j \in Jobs : pc[j] = "acquire"

\* C2: each pool's used count is exactly the number of orchestrators that
\* hold one of its slots, so every acquired slot is released once and none
\* is released unheld; once every orchestrator has returned both are zero.
C2_SlotsReleased ==
  /\ downloadSemaphore = Cardinality(FetchHolders)
  /\ conversionSemaphore = Cardinality(ConvertHolders)
  /\ (\A j \in Jobs : pc[j] \in {"new", "cached", "done"})
        => (downloadSemaphore = 0 /\ conversionSemaphore = 0)

C2_Witness ==
  /\ \A j \in 1..MaxJobs : pc[j] = "done"
  /\ \E j \in Jobs : Status[j] = "error"
  /\ \E j \in Jobs : Status[j] = "completed"
  /\ downloadSemaphore = 0

\* C3: no step lowers a job's progress.
C3_ProgressMonotone ==
  [][\A j \in Jobs : Progress'[j] >= Progress[j]]_vars

\* C4: once a job's status is completed or error, no step changes its
\* status, progress or message.
C4_TerminalIsFinal ==
  [][\A j \in Jobs :
       Status[j] \in Terminal =>
         (Status'[j] = Status[j] /\ Progress'[j] = Progress[j]
            /\ Message'[j] = Message[j])]_vars

\* The state of the specification's machine that a status and message show.
StateOf(status, message) ==
  CASE status = "none" -> "None"
    [] status = "starting" -> "Starting"
    [] status = "completed" -> "Completed"
    [] status = "error" -> "Failed"
    [] status = "downloading" /\ message = "Converting with Calibre..." -> "Converting"
    [] status = "downloading" /\ message = "Uploading to storage..." -> "Uploading"
    [] OTHER -> "Downloading"

Rank(state) ==
  CASE state = "None" -> 0
    [] state = "Starting" -> 1
    [] state = "Queued" -> 2
    [] state = "Downloading" -> 3
    [] state = "Converting" -> 4
    [] state = "Uploading" -> 5
    [] state = "Completed" -> 6
    [] OTHER -> 7

\* A forward move along the machine, or a move from a non-terminal state
\* into Failed.
MachineEdge(from, to) ==
  /\ from \notin {"Completed", "Failed"}
  /\ to = "Failed" \/ Rank(from) < Rank(to)

\* C5: every change of a job's state is a forward edge of the machine or
\* an edge into Failed; Completed and Failed are never left.
C5_StateMachine ==
  [][\A j \in Jobs :
       StateOf(Status[j], Message[j]) # StateOf(Status'[j], Message'[j])
         => MachineEdge(StateOf(Status[j], Message[j]),
                        StateOf(Status'[j], Message'[j]))]_vars

\* C6: a cache hit creates the job completed and cached, launches no
\* orchestrator for it, and leaves both pools' used counts as they were;
\* the job never holds a slot afterwards.
C6_CacheHitTakesNoSlot ==
  [][\A j \in Jobs :
       Cached'[j] =>
         /\ Status'[j] = "completed"
         /\ pc'[j] = "cached"
         /\ fetchSlot'[j] = "none" /\ convSlot'[j] = "none"
         /\ ~Cached[j] =>
              /\ pc[j] = "new"
              /\ downloadSemaphore' = downloadSemaphore
              /\ conversionSemaphore' = conversionSemaphore]_vars

C6_Witness ==
  \E j, k \in Jobs :
    /\ Cached[j] /\ Status[j] = "completed" /\ j \in downloads
    /\ InFetch(k)

\* The job has been reported as downloading (or further) at some point.
ReachedDownloading(j) == Status[j] \notin {"none", "starting"} /\ ~Cached[j]

NoFetchRelease == \A j \in Jobs : pc[j] # "done"

\* C7: until a fetch slot has been released, at most DownloadSlots
\* non-cached jobs have reached downloading; any further job is still
\* starting.
C7_FourthWaits ==
  NoFetchRelease =>
     Cardinality({j \in Jobs : ReachedDownloading(j)}) <= DownloadSlots

C7_Witness ==
  /\ NoFetchRelease
  /\ Cardinality({j \in Jobs : Status[j] = "downloading"}) = DownloadSlots
  /\ \E j \in Jobs : pc[j] = "acquire" /\ Status[j] = "starting" /\ ~ENABLED AcquireFetchSlot(j)

\* Fair scheduling: every orchestrator and every goroutine of a chapter
\* fetch keeps being scheduled while it has a step to take; each external
\* call returns.
FairSpec ==
  /\ Init
  /\ [][Next]_vars
  /\ \A j \in 1..MaxJobs :
       /\ WF_vars(downloadBookAsync(j, 0..MaxChapters))
       /\ WF_vars(DownloadContent(j))

\* C8: under fair scheduling every job whose orchestrator was launched
\* eventually holds a fetch slot and eventually is completed or failed.
C8_EveryJobFinishes ==
  \A j \in 1..MaxJobs :
     (pc[j] = "acquire") ~> (fetchSlot[j] # "none" /\ Status[j] \in Terminal)

\* Nothing will be sent for job j any more: its request was answered from
\* the cache or its orchestrator has returned, and no progress tick is
\* pending.
Quiescent(j) == pc[j] \in {"cached", "done"} /\ completed[j] = ticksSent[j]

\* The handler of s waits in its loop for an update that will never come.
WaitsForever(s) ==
  /\ ssePc[s] = "loop"
  /\ clientChan[s] = <<>>
  /\ Quiescent(sseJob[s])

\* C9: once a subscriber has been written a terminal event, that event
\* stays the last one written, and the handler is not left waiting in its
\* loop for a client disconnect.
C9_TerminalEndsStream ==
  \A s \in Subs :
    sseTerminals[s] >= 1 =>
       /\ sseLast[s] \in Terminal
       /\ ~WaitsForever(s)

\* C10: a subscriber is never written two terminal events, and is never
\* left waiting in its loop without one after the job has finished.
C10_ExactlyOneTerminal ==
  \A s \in Subs :
    /\ sseTerminals[s] <= 1
    /\ ~(sseTerminals[s] = 0 /\ WaitsForever(s))

\* C11: no event written to a subscriber's stream carries an older state
\* of the job than the event written before it, the initial snapshot
\* included.
C11_EventsInOrder ==
  [][\A s \in Subs : sseSeq'[s] >= sseSeq[s]]_vars

\* The subscriber's channel is registered with its job.
Registered(s) == \E j \in Jobs : s \in sseClients[j]

HadTerminal(j) == pc[j] \in {"cached", "return", "done"}

StorageUnavailable == "Storage service unavailable - please contact administrator"

ConvertPhase(j) == pc[j] \in {"convwait", "converting", "copyfailed"}

\* C15: the convert step gives its slot back however it ends; a failed
\* conversion whose copy succeeded leaves the job unfailed and on its way to
\* the upload; the job fails in the convert phase only after a failed copy.
C15_ConverterFallback ==
  [][\A j \in Jobs :
       /\ (pc[j] = "converting" /\ pc'[j] # "converting") =>
            /\ conversionSemaphore' = conversionSemaphore - 1
            /\ Status'[j] # "error" /\ Error'[j] = ""
            /\ convResult'[j] = "copied" => pc'[j] = "converted"
            /\ pc'[j] = "copyfailed" <=> convResult'[j] = "copyfailed"
       /\ (pc[j] = "converted" /\ pc'[j] # "converted" /\ MinIOClient) =>
            (pc'[j] = "upload" /\ Error'[j] = "")
       /\ (ConvertPhase(j) /\ Error'[j] # Error[j]) =>
            /\ convResult[j] = "copyfailed"
            /\ Error'[j] = "Failed to save EPUB file"]_vars

\* A job completed with the byte-copied input as its artifact.
C15_Witness ==
  \E j \in Jobs :
    /\ convResult[j] = "copied"
    /\ Status[j] = "completed"
    /\ conversionSemaphore = 0

\* C16: the step that records a job's error sets it failed with that error
\* and makes the orchestrator return; afterwards the error stays the same,
\* the orchestrator takes no step but its return, the job is never
\* completed, nothing is uploaded for it and no cache record is written
\* by it.
C16_FirstErrorEnds ==
  [][\A j \in Jobs :
       /\ (Error[j] = "" /\ Error'[j] # "") =>
            /\ Status'[j] = "error"
            /\ Message'[j] = Error'[j]
            /\ pc'[j] = "return"
            /\ redis' = redis /\ store' = store
       /\ Error[j] # "" =>
            /\ Error'[j] = Error[j]
            /\ pc[j] \in {"return", "done"} /\ pc'[j] \in {"return", "done"}
            /\ Status'[j] # "completed"
            /\ uploaded'[j] = uploaded[j] /\ convSlot'[j] = convSlot[j]
            /\ MinIOURL'[j] = 0]_vars

\* The presign failed after the upload: the orchestrator returned and no
\* record was written.
C16_Witness ==
  \E j \in Jobs :
    /\ pc[j] = "done"
    /\ Error[j] = "Failed to generate download URL"
    /\ uploaded[j] # NotUploaded
    /\ redis[BookID[j]] = NoRecord
    /\ Status[j] = "error"

\* C17: a request is never failed by the cache read: it is answered from a
\* record that exists, or it becomes a normal job; and an orchestrator that
\* leaves the cache write without a job error goes on to complete the job
\* with its URL, whether or not the record was written.
C17_CacheNeverFails ==
  [][\A j \in Jobs :
       /\ (pc[j] = "new" /\ pc'[j] # "new") =>
            /\ exists(j)' /\ Error'[j] = ""
            /\ pc'[j] = "cached" =>
                 (RedisClient /\ MinIOClient /\ redis[BookID'[j]] # NoRecord)
            /\ pc'[j] # "cached" =>
                 (pc'[j] = "acquire" /\ Status'[j] = "starting" /\ ~Cached'[j])
       /\ (pc[j] = "presign" /\ pc'[j] # "presign" /\ Error'[j] = "") =>
            pc'[j] = "complete"
       /\ (pc[j] = "complete" /\ pc'[j] # "complete") =>
            (Status'[j] = "completed" /\ pc'[j] = "completing")
       /\ (pc[j] = "completing" /\ pc'[j] # "completing") =>
            (MinIOURL'[j] # 0 /\ pc'[j] = "broadcast")]_vars

\* The second request became a normal job although the record that answered
\* the first one exists: its cache read, or its presign, failed.
C17_Witness ==
  /\ Cached[1]
  /\ BookID[2] = BookID[1]
  /\ pc[2] = "acquire" /\ Status[2] = "starting" /\ ~Cached[2]

\* The completion of j is written in full: the orchestrator is not between
\* the assignment of Status and that of the URL.
CompletionWritten(j) == pc[j] # "completing"

\* C18: the object a job refers to, once its completion is written, is in
\* the bucket.
C18_ArtifactPresent ==
  \A j \in Jobs :
    (Status[j] = "completed" /\ CompletionWritten(j))
       => (MinIOURL[j] # 0 /\ MinIOURL[j] \in store)

\* C19: a job whose completion is written refers to an object and has a
\* size above 0.
C19_CompletedHasArtifact ==
  \A j \in Jobs :
    (Status[j] = "completed" /\ CompletionWritten(j))
       => (MinIOURL[j] # 0 /\ FileSize[j] > 0)

\* C20: a cache record changes only in the step of an orchestrator whose
\* upload and presign succeeded; the new record is for that run's book and
\* holds the object name and size its upload returned, the object is in the
\* bucket, and the run does not fail afterwards.
C20_CacheWrite ==
  [][/\ \A b \in Books :
          redis'[b] # redis[b] =>
            \E j \in Jobs :
              /\ pc[j] = "presign" /\ pc'[j] = "complete"
              /\ BookID[j] = b
              /\ uploaded[j] # NotUploaded
              /\ redis'[b] = [EpubPath |-> uploaded[j].name,
                              EpubSize |-> uploaded[j].size]
              /\ uploaded[j].name \in store
     /\ \A j \in Jobs :
          pc[j] \in {"complete", "completing", "broadcast"} => Error'[j] = ""]_vars

\* A run wrote its record, and a run that failed left none.
C20_Witness ==
  \E j, k \in Jobs :
    /\ uploaded[j] # NotUploaded /\ Status[j] = "completed"
    /\ redis[BookID[j]] = [EpubPath |-> uploaded[j].name, EpubSize |-> uploaded[j].size]
    /\ Error[k] # "" /\ pc[k] = "done"

\* C21: while a job is in the registry and its status reads completed, the
\* file lookup answers a redirect; once it has answered a redirect it keeps
\* doing so until the job is removed; an id outside the registry is not
\* found, and a job whose status is not completed is refused.
C21_FileRedirect ==
  [][\A j \in Jobs :
       /\ (exists(j)' /\ Status'[j] = "completed")
            => GetFileHandler(j)' = "redirect"
       /\ (GetFileHandler(j) = "redirect" /\ exists(j)')
            => GetFileHandler(j)' = "redirect"
       /\ ~exists(j)' => GetFileHandler(j)' = "notfound"
       /\ (exists(j)' /\ Status'[j] # "completed")
            => GetFileHandler(j)' = "notcompleted"]_vars

FetchSlotHolders == {j \in Jobs : fetchSlot[j] = "held"}

ConvSlotHolders == {j \in Jobs : convSlot[j] = "held"}

\* C22: each pool's used count is the number of orchestrators holding one
\* of its slots, so a holder has exactly one; a step changes at most one
\* pool; a slot is acquired only by an orchestrator that holds none of that
\* pool; and a convert slot is held only together with a fetch slot.
C22_OneSlotEach ==
  [][/\ downloadSemaphore' = Cardinality(FetchSlotHolders)'
     /\ conversionSemaphore' = Cardinality(ConvSlotHolders)'
     /\ downloadSemaphore' # downloadSemaphore =>
          (conversionSemaphore' = conversionSemaphore /\ convSlot' = convSlot)
     /\ conversionSemaphore' # conversionSemaphore =>
          (downloadSemaphore' = downloadSemaphore /\ fetchSlot' = fetchSlot)
     /\ \A j \in Jobs :
          /\ convSlot'[j] = "held" => fetchSlot'[j] = "held"
          /\ (fetchSlot'[j] = "held" /\ fetchSlot[j] # "held") =>
               (fetchSlot[j] = "none" /\ downloadSemaphore' = downloadSemaphore + 1)
          /\ (convSlot'[j] = "held" /\ convSlot[j] # "held") =>
               (convSlot[j] = "none" /\ conversionSemaphore' = conversionSemaphore + 1)]_vars

\* Both pools are in use at once: two orchestrators hold a slot of each and
\* a third holds a fetch slot only, after another gave both of its back.
C22_Witness ==
  /\ Cardinality(ConvSlotHolders) = ConversionSlots
  /\ Cardinality(FetchSlotHolders \ ConvSlotHolders) >= 1
  /\ \E j \in Jobs : fetchSlot[j] = "released" /\ convSlot[j] = "released"

\* The job-side state: everything but the subscribers and their channels.
jobVars == <<cfgVars, post, sideVars, localVars, redis, artifactVars, downloads, BookID, fieldVars, Cached, pc,
             semVars, timer, fetchVars, completed, panicked, failures>>

\* C23: the step in which a client goes away, and the deregistration that
\* follows it, change nothing of any job and nothing of any other
\* subscriber; the deregistration removes that subscriber only; a handler
\* that has not returned stays registered; an update queued for one
\* subscriber of a job is queued for every other one that has room; and an
\* orchestrator that has not returned can take its next step whoever is
\* subscribed.
C23_DisconnectOnlyDeregisters ==
  [][\A s \in Subs :
       /\ (ssePc[s] \in {"loop", "exit"} /\ sseGone'[s] /\ ssePc'[s] # ssePc[s]) =>
            /\ jobVars' = jobVars
            /\ \A t \in Subs \ {s} :
                 /\ clientChan'[t] = clientChan[t]
                 /\ ssePc'[t] = ssePc[t]
                 /\ Registered(t)' = Registered(t)
            /\ \A j \in Jobs : sseClients'[j] \in {sseClients[j], sseClients[j] \ {s}}
            /\ ssePc'[s] = "closed" => ~Registered(s)'
       /\ ssePc'[s] \in {"snapshot", "loop", "exit"} => s \in sseClients'[sseJob'[s]]
       /\ \A t \in Subs :
            (/\ Len(clientChan'[s]) > Len(clientChan[s])
             /\ t \in sseClients[sseJob[s]]
             /\ Len(clientChan[t]) < ClientChanCap)
              => clientChan'[t] = Append(clientChan[t],
                                         clientChan'[s][Len(clientChan'[s])])
       /\ (Running /\ pc[1] \notin {"new", "cached", "done"})
            => ENABLED downloadBookAsync(1, {0})]_vars

\* One subscriber went away in mid-run and was deregistered; the job went
\* on to completion and the other subscriber was written later updates,
\* the terminal one included.
C23_Witness ==
  \E s, t \in Subs :
    /\ s # t
    /\ sseGone[s] /\ ssePc[s] = "closed" /\ sseLast[s] = "downloading"
    /\ pc[1] = "done" /\ Status[1] = "completed"
    /\ ~sseGone[t] /\ sseLast[t] = "completed" /\ sseSeq[t] > sseSeq[s]

\* C24: a POST whose body does not decode or leaves the book id empty is
\* answered 400; a POST answered 400 changes nothing: no job is added, no
\* orchestrator position, slot, cache record or stored object changes; and
\* every job that is added carries the non-empty book id of a body that
\* decoded.
C24_BadRequestChangesNothing ==
  [][/\ (post' # post /\ (~post'.body.ok \/ post'.body.book_id = 0))
          => post'.code = "400"
     /\ (post' # post /\ post'.code = "400") => afterPost' = afterPost
     /\ \A j \in Jobs :
          (exists(j)' /\ ~exists(j)) =>
             /\ post'.code \in {"200", "202"} /\ post'.body.ok
             /\ BookID'[j] = post'.body.book_id /\ BookID'[j] # 0]_vars

\* A body without a book id was refused while an orchestrator was at work,
\* which still holds its slots.
C24_Witness ==
  /\ post.code = "400" /\ post.body.ok /\ post.body.book_id = 0
  /\ pc[1] = "converting" /\ downloadSemaphore = 1 /\ conversionSemaphore = 1
  /\ downloads = {1}

\* C25: a job is failed with the book-not-found error exactly when
\* upstream answered the book-info request with 404, and the info endpoint
\* answers 404 exactly then; every other failed lookup is answered 500.
C25_NotFoundOnly404 ==
  /\ jobError # "none" => (jobError = BookNotFound <=> Missing(bookInfoResp))
  /\ infoCode # "none" =>
       /\ infoCode = "404" <=> Missing(bookInfoResp)
       /\ (~(bookInfoResp.kind = "status" /\ bookInfoResp.status = "200") /\ ~Missing(bookInfoResp)) => infoCode = "500"

\* Two records are equal field by field, their times as instants.
EqualInfo(a, b) ==
  /\ a.BookID = b.BookID /\ a.BookTitle = b.BookTitle
  /\ a.MinIOPath = b.MinIOPath /\ a.FileSize = b.FileSize
  /\ a.UploadedAt.sec = b.UploadedAt.sec /\ a.UploadedAt.nsec = b.UploadedAt.nsec
  /\ a.ISBN = b.ISBN

ReportedConverting(j) ==
  StateOf(Status[j], Message[j]) = "Converting" /\ Progress[j] = 80

\* C27: a job that waits for a convert slot is not shown as converting, and
\* at most ConversionSlots jobs in the convert phase are shown as
\* converting.
C27_ConvertingHoldsSlot ==
  /\ \A j \in Jobs : pc[j] = "convwait" => ~ReportedConverting(j)
  /\ Cardinality({j \in Jobs : ConvertPhase(j) /\ ReportedConverting(j)})
        <= ConversionSlots

\* The lock the orchestrator of j holds for its next write of the job's
\* fields: Download.mutex inside UpdateStatus and SetError, the registry's
\* downloadsLock around the direct assignments of the completion.
WriteLock(j) ==
  IF pc[j] \in {"complete", "completing"} THEN "downloadsLock" ELSE "mutex"

\* The fields of a Download that are read by the handlers.
Fields(j) == <<Status[j], Progress[j], Message[j], Error[j], FileSize[j], MinIOURL[j]>>

\* C28: an orchestrator step that writes a field of a registered job holds
\* that job's own lock, and no state shows a job with one part of an update
\* applied and the other not.
C28_FieldsUnderJobLock ==
  [][\A j \in Jobs :
       /\ (exists(j) /\ pc'[j] # pc[j] /\ Fields(j)' # Fields(j)) => WriteLock(j) = "mutex"
       /\ ~(Status'[j] = "completed" /\ ~Cached'[j] /\ MinIOURL'[j] = 0)]_vars

\* C29: an orchestrator whose fetch returned an artifact leaves, when it
\* returns, no directory of that artifact behind, whatever the way out; and
\* while its convert or copy step has not finished, the artifact's
\* directory is on disk.
C29_ArtifactCleanup ==
  [][\A j \in Jobs :
       /\ (pc[j] = "return" /\ pc'[j] = "done" /\ epubPath[j] # 0)
            => epubPath[j] \notin bookDirs'
       /\ (pc[j] = "return" /\ pc'[j] = "done" /\ epubPath[j] = 0)
            => bookDirs' = bookDirs
       /\ (pc'[j] \in {"convwait", "converting"} /\ epubPath'[j] # 0) => epubPath'[j] \in bookDirs']_vars

\* C30: two jobs for different book ids have different fetch directories
\* and different conversion outputs.
C30_DistinctPaths ==
  \A k, l \in 1..MaxPathJobs :
    (paths[k] # NoPaths /\ paths[l] # NoPaths /\ paths[k].id # paths[l].id) =>
       /\ paths[k].dir # paths[l].dir
       /\ (paths[k].out # <<>> /\ paths[l].out # <<>>) => paths[k].out # paths[l].out

\* C31: a job reported as downloading belongs to an orchestrator that holds
\* a fetch slot, so no more jobs are downloading than fetch slots are in use.
C31_DownloadingHoldsSlot ==
  /\ \A j \in Jobs : Status[j] = "downloading" => fetchSlot[j] = "held"
  /\ Cardinality({j \in Jobs : Status[j] = "downloading"}) <= downloadSemaphore

\* The orchestrators blocked in the send on conversionSemaphore.
BlockedOnConvSlot == {j \in Jobs : pc[j] = "convwait" /\ ~ConvSlotFree}

\* C32: an orchestrator holds its fetch slot from the acquisition until it
\* returns, the wait for a convert slot and the convert step included; so at
\* most DownloadSlots orchestrators are past the acquisition and at most
\* one of them is blocked waiting for a convert slot.
C32_FetchSlotKept ==
  /\ \A j \in Jobs : InFetch(j) <=> fetchSlot[j] = "held"
  /\ Cardinality(FetchHolders) <= DownloadSlots
  /\ Cardinality({j \in FetchHolders : Status[j] \notin Terminal}) <= DownloadSlots
  /\ Cardinality(BlockedOnConvSlot) <= DownloadSlots - ConversionSlots

C32_Witness ==
  /\ Cardinality(BlockedOnConvSlot) = 1
  /\ \A j \in BlockedOnConvSlot : fetchSlot[j] = "held"
  /\ Cardinality(ConvertHolders) = ConversionSlots
  /\ \E j \in Jobs : pc[j] = "acquire" /\ ~FetchSlotFree

\* C33: while an orchestrator writes into its fetch directory or reads from
\* it, and while it has written its conversion output and not yet uploaded
\* it, no other job for the same book has removed them; and a job none of
\* whose external steps failed does not end in error.
C33_NoInterference ==
  [][\A j \in Jobs :
       /\ pc'[j] \in {"cover", "content", "fetched", "convwait", "converting"} \cup DOMAIN EpubSteps
             => BookDir(BookID'[j]) \in bookDirs'
       /\ pc'[j] \in {"converted", "upload"} => BookID'[j] \in outFiles'
       /\ (failures' = 0 /\ MinIOClient' /\ exists(j)') => Status'[j] # "error"]_vars

\* C34: an orchestrator that returns after its convert or copy step leaves
\* no conversion output of its book in tmpDir.
C34_NoOutputLeftBehind ==
  [][\A j \in Jobs :
       (pc[j] = "return" /\ pc'[j] = "done" /\ convResult[j] \in {"converted", "copied"})
          => BookID[j] \notin outFiles']_vars

\* C35: no worker of DownloadContent sends its progress tick after the
\* main goroutine closed progressChan.
C35_NoSendOnClosed ==
  /\ ~panicked
  /\ \A j \in Jobs : pc[j] # "content" => ticksSent[j] = resultsSent[j]

\* C36: every chapter is attempted once and never twice, at most
\* MaxConcurrent chapter downloads are in flight, DownloadContent returns
\* only when every chapter was attempted and its outcome received, it
\* returns an error exactly when a chapter download failed, and a call for
\* no chapters can return at once.
C36_EveryChapterOnce ==
  /\ \A c \in 1..MaxContentChapters : dc.attempts[c] <= 1
  /\ Cardinality({w \in 1..MaxConcurrent : dc.worker[w] = "download"}) <= 5
  /\ dc.ret # "none" =>
       /\ \A c \in 1..MaxContentChapters : dc.attempts[c] = IF c <= dc.n THEN 1 ELSE 0
       /\ \A w \in 1..MaxConcurrent : dc.worker[w] # "download"
       /\ (dc.ret = "error") <=> (dc.failed > 0)
  /\ (dc.called /\ dc.n = 0 /\ dc.ret = "none") => ENABLED ContentReturns

C36_Witness ==
  /\ dc.n > MaxConcurrent
  /\ dc.ret = "error"
  /\ \A c \in 1..dc.n : dc.attempts[c] = 1

\* C37: a POST that adds a job is answered 200 with a cached job exactly
\* when both clients are configured, the cache holds a record with a path
\* for the book and a presigned URL was minted for it; in every other case
\* it is answered 202, the one job it adds is starting and its orchestrator
\* is launched.
C37_CacheHitOrNewJob ==
  [][\A j \in Jobs :
       (exists(j)' /\ ~exists(j)) =>
          /\ downloads' = downloads \cup {j}
          /\ post'.code = "200" <=> Cached'[j]
          /\ Cached'[j] =>
               /\ RedisClient /\ MinIOClient
               /\ redis[BookID'[j]] # NoRecord /\ redis[BookID'[j]].EpubPath # 0
               /\ post'.cache = "hit" /\ MinIOURL'[j] # 0
               /\ Status'[j] = "completed" /\ pc'[j] = "cached"
          /\ ~Cached'[j] =>
               /\ post'.code = "202"
               /\ Status'[j] = "starting" /\ pc'[j] = "acquire"
          /\ (~RedisClient \/ ~MinIOClient \/ redis[BookID'[j]] = NoRecord
                \/ post'.cache \in {"skipped", "norecord", "nourl"}) => ~Cached'[j]]_vars

\* A first request was served from the cache; a second one for the same
\* book found the record but got no URL, and its orchestrator is launched.
C37_Witness ==
  /\ Cached[1] /\ Status[1] = "completed"
  /\ post.cache = "nourl" /\ post.code = "202"
  /\ pc[2] = "acquire" /\ Status[2] = "starting" /\ BookID[2] = BookID[1]

\* C38: in every answer of the stats endpoint each pool's used count is
\* between 0 and its capacity (3 and 2), used + free is the capacity, and
\* the four per-state counts add up to total_downloads, the number of
\* registered jobs when the registry was locked.
C38_StatsConsistent ==
  /\ stats.pc = "done" =>
       /\ stats.downloadUsed \in 0..3
       /\ stats.downloadUsed + (DownloadSlots - stats.downloadUsed) = 3
       /\ stats.conversionUsed \in 0..2
       /\ stats.conversionUsed + (ConversionSlots - stats.conversionUsed) = 2
  /\ stats.pc \in {"slots", "done"} =>
       /\ stats.active + stats.completed + stats.failed + stats.queued = stats.total
       /\ stats.total = Cardinality(stats.seen)

\* An answer that counted one job downloading and one completed, with one
\* fetch slot and one convert slot in use.
C38_Witness ==
  /\ stats.pc = "done"
  /\ stats.total = 2 /\ stats.active = 1 /\ stats.completed = 1
  /\ stats.downloadUsed = 1 /\ stats.conversionUsed = 1

RECURSIVE DepthsOf(_)
\* The depths of all items of a table of contents, 0 counted as 1.
DepthsOf(items) ==
  UNION {{IF items[i].Depth = 0 THEN 1 ELSE items[i].Depth} \cup DepthsOf(items[i].Children) :
           i \in DOMAIN items}

\* C39: the playOrder values parseTOC writes start at the given one and
\* increase strictly in document order, and maxDepth is the largest depth
\* of any item.
C39_PlayOrderIncreases ==
  (toc.called /\ toc.items # <<>>) =>
     /\ toc.nav[1] = 1
     /\ \A i, k \in DOMAIN toc.nav : i < k => toc.nav[i] < toc.nav[k]
     /\ \A d \in DepthsOf(toc.items) : d <= toc.maxDepth
     /\ toc.maxDepth \in DepthsOf(toc.items)

====
